---- MODULE Spec2Model ----
(***************************************************************************)
(* Virtk MPTCP schedulers (minRTT, BLEST, XLayer): subflow selection,      *)
(* head-of-line blocking prevention, the lambda controller and the         *)
(* throughput estimators, modelled from src/patch_files and src/unnamed.   *)
(***************************************************************************)
EXTENDS Integers, Sequences, FiniteSets, TLC

(***************************************************************************)
(* Machine words.  The kernel code computes on u32 and u64; TLC's integers *)
(* are narrower than u32, so an unsigned word is a little-endian sequence  *)
(* of 16-bit limbs: a u32 is <<lo, hi>>, a u64 has four limbs.             *)
(***************************************************************************)
Limb == 2^16

\* the u32 holding the small natural n (n < 2^31)
U32(n) == <<n % Limb, n \div Limb>>

\* the u64 holding the small natural n (n < 2^31)
U64(n) == <<n % Limb, n \div Limb, 0, 0>>

\* the value of a word that fits TLC's integers (hi limb < 2^15)
ToInt(w) == w[1] + Limb * w[2]

FitsInt(w) == w[2] < 2^15 /\ \A i \in 3..Len(w) : w[i] = 0

U32_MAX == <<Limb - 1, Limb - 1>>

ZeroW(n) == [i \in 1..n |-> 0]

\* zero-extend or truncate a word to n limbs (truncation is reduction mod 2^(16 n))
Resize(w, n) == [i \in 1..n |-> IF i <= Len(w) THEN w[i] ELSE 0]

RECURSIVE AddC(_, _, _)
AddC(a, b, c) ==
    IF a = <<>> THEN <<>>
    ELSE LET s == Head(a) + Head(b) + c
         IN  <<s % Limb>> \o AddC(Tail(a), Tail(b), s \div Limb)

\* a + b modulo the word size (a and b of equal length)
AddW(a, b) == AddC(a, b, 0)

RECURSIVE SubB(_, _, _)
SubB(a, b, br) ==
    IF a = <<>> THEN <<>>
    ELSE LET d == Head(a) - Head(b) - br
         IN  <<d % Limb>> \o SubB(Tail(a), Tail(b), IF d < 0 THEN 1 ELSE 0)

\* a - b modulo the word size (unsigned wrap-around)
SubW(a, b) == SubB(a, b, 0)

RECURSIVE LtW(_, _)
LtW(a, b) ==
    IF a = <<>> THEN FALSE
    ELSE LET n == Len(a)
         IN  IF a[n] # b[n] THEN a[n] < b[n]
             ELSE LtW(SubSeq(a, 1, n - 1), SubSeq(b, 1, n - 1))

LeW(a, b) == ~LtW(b, a)
MinW(a, b) == IF LtW(b, a) THEN b ELSE a
MaxW(a, b) == IF LtW(a, b) THEN b ELSE a

\* the product of two limbs as <<lo, hi>>, without leaving TLC's integers
MulLimb(x, y) ==
    LET t1 == x * (y % 256)
        t2 == x * (y \div 256)
        m  == (t2 % 256) * 256 + t1
    IN  <<m % Limb, (t2 \div 256) + (m \div Limb)>>

RECURSIVE MulSmall(_, _, _)
\* word a times limb d plus carry c, one limb longer than a
MulSmall(a, d, c) ==
    IF a = <<>> THEN <<c>>
    ELSE LET p == MulLimb(Head(a), d)
             s == p[1] + c
         IN  <<s % Limb>> \o MulSmall(Tail(a), d, p[2] + (s \div Limb))

RECURSIVE MulAcc(_, _, _)
MulAcc(a, b, n) ==
    IF b = <<>> THEN ZeroW(n)
    ELSE AddW(Resize(MulSmall(a, Head(b), 0), n),
              Resize(<<0>> \o MulAcc(a, Tail(b), n - 1), n))

\* a * b reduced to n limbs
MulW(a, b, n) == MulAcc(a, b, n)

\* u32 / u32, b # 0.  With a = 2 * a1 + a0, the halves fit TLC's integers.
DivW(a, b) ==
    IF ~FitsInt(b) THEN (IF LeW(b, a) THEN U32(1) ELSE U32(0))
    ELSE IF ToInt(b) = 1 THEN a
    ELSE LET d  == ToInt(b)
             a1 == a[2] * 2^15 + (a[1] \div 2)
             a0 == a[1] % 2
             q1 == a1 \div d
             r1 == a1 % d
         IN  U32(2 * q1 + (IF r1 + a0 >= d - r1 THEN 1 ELSE 0))

RECURSIVE DivSmallR(_, _, _)
\* long division of a word (most significant limb first) by d < 2^15
DivSmallR(a, d, r) ==
    IF a = <<>> THEN <<>>
    ELSE LET n   == Len(a)
             cur == r * Limb + a[n]
         IN  DivSmallR(SubSeq(a, 1, n - 1), d, cur % d) \o <<cur \div d>>

\* word / d for a small divisor d (0 < d < 2^15), same length
DivSmall(a, d) == DivSmallR(a, d, 0)

\* u32 >> 3
Shr3(w) == <<(w[1] \div 8) + (w[2] % 8) * 8192, w[2] \div 8>>

(***************************************************************************)
(* Bounds of the model.                                                    *)
(***************************************************************************)
\* number of subflows of the connection
NPaths == 2

\* scheduling calls explored per behaviour (total_decisions is a u32 counter)
MaxDecisions == 2

\* clock ticks explored per behaviour
MaxTicks == 1

(***************************************************************************)
(* Kernel constants the schedulers use.                                    *)
(***************************************************************************)
TCP_INFINITE_SSTHRESH == 2147483647
EINVAL == 22
EAGAIN == 11

\* a NULL subflow pointer
NULL == 0
\* a subflow pointer that was never assigned and points at no subflow
WILD == -1
\* get_subflow did not return: the kernel faulted on a wild pointer
OOPS == 1

Paths == 1..NPaths

VARIABLES
    sched,    \* the scheduler the connection uses
    paths,    \* host stack: per-subflow transport state, in list order
    conn,     \* host stack: connection-level (meta socket) state
    metrics,  \* xlayer_metrics: the two link bitrates
    tun,      \* module parameters lambda, max_lambda, min_lambda, dyn_lambda_*
    clock,    \* tcp_jiffies32 = boot + ticks (mod 2^32)
    ctl,      \* the scheduler's control state (BlestConnData / blest_global)
    common,   \* common_global_data of the shared library
    last,     \* record of the last call: its inputs, decision and result
    threads,  \* position and locals of each thread inside a call
    lock,     \* xlayer_metrics.lock: the thread holding it, or NULL
    heap      \* the global pointer to the control state and the kzalloc'ed blocks

vars == <<sched, paths, conn, metrics, tun, clock, ctl, common, last, threads, lock, heap>>

\* one connection served by one thread: no call is ever in progress, the
\* lock is free and the control state is the block the variable ctl holds
Sequential ==
    /\ threads = <<>>
    /\ lock = NULL
    /\ heap = [ptr |-> NULL, blocks |-> <<>>]

tcp_jiffies32 == AddW(clock.boot, U32(clock.ticks))

(***************************************************************************)
(* Availability filter and RTT metric (utils.h).                           *)
(***************************************************************************)
\* tcp_packets_in_flight(tp) >= tp->snd_cwnd and the other disqualifiers
mptcp_subflow_is_available(p) ==
    /\ p.ssk
    /\ p.active
    /\ p.can_send
    /\ p.mem_free
    /\ ~(p.packets_in_flight >= p.snd_cwnd)
    /\ ~(p.ca_state = "Loss")
    /\ ~(p.ca_state = "Recovery" /\ p.snd_cwnd <= 4)
    /\ p.wnd_room
    /\ ~(p.probes_out > 0)

mptcp_subflow_get_rtt(p) ==
    IF ~p.ssk THEN U32_MAX
    ELSE LET rtt == Shr3(U32(p.srtt_us))
         IN  IF rtt = U32(0) THEN U32_MAX ELSE rtt

RECURSIVE MinRttLoop(_, _, _, _, _, _)
\* the loop of get_minrtt_sock from subflow i on, with the running minimum
MinRttLoop(ps, i, use_backup, check_send, min_rtt, best) ==
    IF i > Len(ps) THEN best
    ELSE LET p    == ps[i]
             skip == \/ ~mptcp_subflow_is_available(p)
                     \/ (check_send /\ (~p.ssk \/ ~p.can_send))
                     \/ (~use_backup /\ p.backup)
                     \/ (use_backup /\ ~p.backup)
             rtt  == mptcp_subflow_get_rtt(p)
         IN  IF ~skip /\ LtW(rtt, min_rtt)
             THEN MinRttLoop(ps, i + 1, use_backup, check_send, rtt, i)
             ELSE MinRttLoop(ps, i + 1, use_backup, check_send, min_rtt, best)

get_minrtt_sock(ps, use_backup, check_send) ==
    MinRttLoop(ps, 1, use_backup, check_send, U32_MAX, NULL)

RECURSIVE FallbackLoop(_, _)
FallbackLoop(ps, i) ==
    IF i > Len(ps) THEN NULL
    ELSE IF ps[i].ssk /\ ps[i].active /\ ps[i].can_send THEN i
    ELSE FallbackLoop(ps, i + 1)

\* a fallback that takes the first subflow with a socket, whatever its state
fallback_ignoring_state(ps) ==
    IF \E i \in 1..Len(ps) : ps[i].ssk
    THEN CHOOSE i \in 1..Len(ps) : ps[i].ssk /\ \A j \in 1..(i - 1) : ~ps[j].ssk
    ELSE NULL

mptcp_select_fallback_subflow(ps) == FallbackLoop(ps, 1)

__mptcp_sched_minrtt_get_subflow(ps) ==
    LET best_subflow == get_minrtt_sock(ps, FALSE, TRUE)
    IN  IF best_subflow # NULL THEN best_subflow
        ELSE get_minrtt_sock(ps, TRUE, TRUE)


(***************************************************************************)
(* Throughput and linger-time estimators.                                  *)
(***************************************************************************)
\* a zero average RTT giving no RTT at all instead of one
estimate_num_rtts_zero(time_us, min_srtt_us, max_srtt_us) ==
    LET avg_rtt == DivW(AddW(min_srtt_us, max_srtt_us), U32(2))
    IN  IF avg_rtt = U32(0) THEN U32(0)
        ELSE AddW(DivW(time_us, avg_rtt), U32(1))

\* the RTTs that fit in time_us: avg_rtt = (min + max) / 2 in u32, then
\* time_us / avg_rtt + 1, or 1 when avg_rtt is 0
estimate_num_rtts(time_us, min_srtt_us, max_srtt_us) ==
    LET avg_rtt == DivW(AddW(min_srtt_us, max_srtt_us), U32(2))
    IN  IF avg_rtt = U32(0) THEN U32(1)
        ELSE AddW(DivW(time_us, avg_rtt), U32(1))

\* the slow-start growth without the cap of 16 RTTs
estimate_packets_uncapped(p, time_us, min_srtt_us, max_srtt_us) ==
    LET num_rtts == estimate_num_rtts(time_us, min_srtt_us, max_srtt_us)
    IN  IF p.snd_ssthresh = TCP_INFINITE_SSTHRESH
        THEN MulW(U32(p.snd_cwnd), U32(2^ToInt(num_rtts) - 1), 2)
        ELSE LET ca_cwnd == MaxW(U32(p.snd_cwnd), AddW(U32(p.snd_ssthresh), U32(1)))
             IN  MulW(AddW(ca_cwnd, DivW(SubW(num_rtts, U32(1)), U32(2))), num_rtts, 2)

\* the packets a subflow sends in time_us, by the simplified congestion model
estimate_packets(p, time_us, min_srtt_us, max_srtt_us) ==
    LET num_rtts == estimate_num_rtts(time_us, min_srtt_us, max_srtt_us)
    IN  IF p.snd_ssthresh = TCP_INFINITE_SSTHRESH
        THEN LET n == IF LtW(U32(16), num_rtts) THEN 16 ELSE ToInt(num_rtts)
             IN  MulW(U32(p.snd_cwnd), U32(2^n - 1), 2)
        ELSE LET ca_cwnd == MaxW(U32(p.snd_cwnd), AddW(U32(p.snd_ssthresh), U32(1)))
             IN  MulW(AddW(ca_cwnd, DivW(SubW(num_rtts, U32(1)), U32(2))), num_rtts, 2)

\* div_u64((u64)packets * mss * lambda_1000, 1000), returned as u32
scaled_bytes(packets, mss, lambda_1000) ==
    Resize(DivSmall(MulW(MulW(Resize(packets, 4), U64(mss), 4), U64(lambda_1000), 4), 1000), 2)

\* blest.h: the lambda factor is commented out of the returned product
blest_estimate_bytes(p, time_us, data) ==
    LET packets == estimate_packets(p, time_us, U32(p.srtt_us), U32(p.srtt_us))
    IN  Resize(DivSmall(MulW(Resize(packets, 4), U64(p.mss_cache), 4), 1000), 2)

\* the older BLEST: own copy, scaled by blest_global.lambda_1000
blest_estimate_bytes_p000(p, time_us, data) ==
    scaled_bytes(estimate_packets(p, time_us, U32(p.srtt_us), U32(p.srtt_us)),
                 p.mss_cache, data.lambda_1000)

\* the shared library: RTT bounds and lambda of common_global_data
common_estimate_bytes(p, time_us, cgd) ==
    IF ~p.ssk THEN U32(0)
    ELSE scaled_bytes(estimate_packets(p, time_us, cgd.min_srtt_us, cgd.max_srtt_us),
                      p.mss_cache, cgd.lambda_1000)

\* min + slope * inflight / cwnd, or max when the window is full
linger_estimate(p, min_srtt_us, max_srtt_us) ==
    LET inflight == AddW(U32(p.packets_in_flight), U32(1))
        cwnd     == U32(p.snd_cwnd)
    IN  IF LeW(cwnd, inflight) THEN max_srtt_us
        ELSE LET slope == SubW(max_srtt_us, min_srtt_us)
                 c     == IF cwnd = U32(0) THEN U32(1) ELSE cwnd
             IN  AddW(min_srtt_us, DivW(MulW(slope, inflight, 2), c))

blest_estimate_linger_time(p, data) ==
    IF ~p.ssk THEN U32_MAX
    ELSE MaxW(Shr3(U32(p.srtt_us)), linger_estimate(p, data.min_srtt_us, data.max_srtt_us))

blest_estimate_linger_time_p000(p) ==
    MaxW(U32(p.srtt_us), linger_estimate(p, U32(p.srtt_us), U32(p.srtt_us)))

common_estimate_linger_time(p, cgd) ==
    IF ~p.ssk THEN U32_MAX
    ELSE MaxW(Shr3(U32(p.srtt_us)), linger_estimate(p, cgd.min_srtt_us, cgd.max_srtt_us))

(***************************************************************************)
(* The lambda controller.                                                  *)
(***************************************************************************)
\* a C int stored into an s16
S16(x) == ((x + 32768) % 65536) - 32768

\* usecs_to_jiffies for HZ = 1000: microseconds rounded up to whole ticks
usecs_to_jiffies(u) == U32((ToInt(u) + 999) \div 1000)

\* the comparison with its sides exchanged: a call goes through only while
\* the interval has not yet elapsed
rate_limited_inverted(now, last_lambda_update, rtt_us) ==
    LtW(usecs_to_jiffies(rtt_us), SubW(now, last_lambda_update))

\* tcp_jiffies32 - last_lambda_update < usecs_to_jiffies(rtt_us)
rate_limited(now, last_lambda_update, rtt_us) ==
    LtW(SubW(now, last_lambda_update), usecs_to_jiffies(rtt_us))

\* blest.h and the older BLEST: the interval is the srtt of the subflow passed in
blest_rate_limited(p, data, now) ==
    rate_limited(now, data.last_lambda_update, Shr3(U32(p.srtt_us)))

\* the shared library: the interval is the shared minimum RTT bound
common_rate_limited(p, cgd, now) ==
    rate_limited(now, cgd.last_lambda_update, Shr3(cgd.min_srtt_us))

\* the step and the upper cap only: the lower cap is missing
lambda_step_no_floor(lambda_1000, retrans, t) ==
    LET stepped == S16(IF retrans THEN lambda_1000 + t.dyn_lambda_bad
                                  ELSE lambda_1000 - t.dyn_lambda_good)
    IN  IF S16(t.max_lambda * 100) < stepped
        THEN S16(t.max_lambda * 100) ELSE stepped

\* the two steps exchanged: retransmissions lower lambda
lambda_step_exchanged(lambda_1000, retrans, t) ==
    LET stepped == S16(IF retrans THEN lambda_1000 - t.dyn_lambda_good
                                  ELSE lambda_1000 + t.dyn_lambda_bad)
        capped  == IF S16(t.max_lambda * 100) < stepped
                   THEN S16(t.max_lambda * 100) ELSE stepped
    IN  IF S16(t.min_lambda * 100) > capped
        THEN S16(t.min_lambda * 100) ELSE capped

\* lambda_1000 +/- the step, then min_t(s16, ., max_lambda * 100) and
\* max_t(s16, ., min_lambda * 100)
lambda_step(lambda_1000, retrans, t) ==
    LET stepped == S16(IF retrans THEN lambda_1000 + t.dyn_lambda_bad
                                  ELSE lambda_1000 - t.dyn_lambda_good)
        capped  == IF S16(t.max_lambda * 100) < stepped
                   THEN S16(t.max_lambda * 100) ELSE stepped
    IN  IF S16(t.min_lambda * 100) > capped
        THEN S16(t.min_lambda * 100) ELSE capped

blest_update_lambda(retrans, p, data, now, t) ==
    IF blest_rate_limited(p, data, now)
    THEN data
    ELSE [data EXCEPT !.lambda_1000 = lambda_step(data.lambda_1000, retrans, t),
                      !.last_lambda_update = now]

\* the older BLEST: the caps are two if statements on the stored s16
blest_update_lambda_p000(retrans, p, data, now, t) ==
    IF blest_rate_limited(p, data, now)
    THEN data
    ELSE LET stepped == S16(IF retrans THEN data.lambda_1000 + t.dyn_lambda_bad
                                       ELSE data.lambda_1000 - t.dyn_lambda_good)
             capped  == IF stepped > t.max_lambda * 100
                        THEN S16(t.max_lambda * 100) ELSE stepped
             floored == IF capped < t.min_lambda * 100
                        THEN S16(t.min_lambda * 100) ELSE capped
         IN  [data EXCEPT !.lambda_1000 = floored, !.last_lambda_update = now]

common_update_lambda(retrans, p, cgd, now, t) ==
    IF ~p.ssk THEN cgd
    ELSE IF common_rate_limited(p, cgd, now)
    THEN cgd
    ELSE [cgd EXCEPT !.lambda_1000 = lambda_step(cgd.lambda_1000, retrans, t),
                     !.last_lambda_update = now]


(***************************************************************************)
(* Minimum-RTT search of BLEST and XLayer, with the RTT bounds it keeps.   *)
(***************************************************************************)
RECURSIVE FindMinLoop(_, _, _, _, _)
FindMinLoop(ps, i, data, min_rtt, min_subflow) ==
    IF i > Len(ps) THEN [sub |-> min_subflow, data |-> data]
    ELSE IF ~mptcp_subflow_is_available(ps[i])
    THEN FindMinLoop(ps, i + 1, data, min_rtt, min_subflow)
    ELSE LET current_rtt == mptcp_subflow_get_rtt(ps[i])
             d == [data EXCEPT !.min_srtt_us = MinW(@, current_rtt),
                               !.max_srtt_us = MaxW(@, current_rtt)]
         IN  IF LtW(current_rtt, min_rtt)
             THEN FindMinLoop(ps, i + 1, d, current_rtt, i)
             ELSE FindMinLoop(ps, i + 1, d, min_rtt, min_subflow)

\* blest.h: the bounds of the control state follow mptcp_subflow_get_rtt
find_min_rtt_subflow(ps, data) == FindMinLoop(ps, 1, data, U32_MAX, NULL)

RECURSIVE FindMinCommonLoop(_, _, _, _, _)
FindMinCommonLoop(ps, i, cgd, min_rtt, min_subflow) ==
    IF i > Len(ps) THEN [sub |-> min_subflow, data |-> cgd]
    ELSE IF ~mptcp_subflow_is_available(ps[i])
    THEN FindMinCommonLoop(ps, i + 1, cgd, min_rtt, min_subflow)
    ELSE LET current_rtt == mptcp_subflow_get_rtt(ps[i])
             d == IF ps[i].ssk
                  THEN [cgd EXCEPT !.min_srtt_us = MinW(@, U32(ps[i].srtt_us)),
                                   !.max_srtt_us = MaxW(@, U32(ps[i].srtt_us))]
                  ELSE cgd
         IN  IF LtW(current_rtt, min_rtt)
             THEN FindMinCommonLoop(ps, i + 1, d, current_rtt, i)
             ELSE FindMinCommonLoop(ps, i + 1, d, min_rtt, min_subflow)

\* the shared library: blest_subflow_is_available records tp->srtt_us itself
find_min_rtt_subflow_common(ps, cgd) == FindMinCommonLoop(ps, 1, cgd, U32_MAX, NULL)

\* the subtraction without the comparison that guards it
avail_space_unguarded(p, cn) == SubW(U32(cn.snd_wnd), U32(p.unacked))

\* avail_space = (slow_bytes < snd_wnd) ? snd_wnd - slow_bytes : 0
avail_space_of(p, cn) ==
    LET slow_bytes == U32(p.unacked)
    IN  IF LtW(slow_bytes, U32(cn.snd_wnd)) THEN SubW(U32(cn.snd_wnd), slow_bytes)
        ELSE U32(0)

(***************************************************************************)
(* What one get_subflow call did: its return value, the subflows it marked *)
(* scheduled, the control state it left, and the paths it compared.        *)
(***************************************************************************)
Outcome(ret, marked, data, cgd, minrtt, dflt, maxdr, hol, fired, fast_bytes, avail_space) ==
    [ret |-> ret, marked |-> marked, ctl |-> data, common |-> cgd,
     minrtt |-> minrtt, dflt |-> dflt, maxdr |-> maxdr,
     hol |-> hol, fired |-> fired, fast_bytes |-> fast_bytes, avail_space |-> avail_space]

\* the outcome of a call that returns before any comparison
Early(ret, marked, data, cgd, minrtt, dflt) ==
    Outcome(ret, marked, data, cgd, minrtt, dflt, NULL, FALSE, FALSE, U32(0), U32(0))

\* minRTT without the return after the first mark: the fallback is marked too
minrtt_get_subflow_no_return(ps, cn, data, cgd, now, t) ==
    LET best_subflow == __mptcp_sched_minrtt_get_subflow(ps)
        fallback     == mptcp_select_fallback_subflow(ps)
    IN  IF best_subflow # NULL \/ fallback # NULL
        THEN {Early(0, {best_subflow, fallback} \ {NULL}, data, cgd, NULL,
                    IF best_subflow # NULL THEN best_subflow ELSE fallback)}
        ELSE {Early(-EINVAL, {}, data, cgd, NULL, NULL)}

mptcp_sched_minrtt_get_subflow(ps, cn, data, cgd, now, t) ==
    LET best_subflow == __mptcp_sched_minrtt_get_subflow(ps)
        fallback     == mptcp_select_fallback_subflow(ps)
    IN  IF best_subflow # NULL THEN {Early(0, {best_subflow}, data, cgd, NULL, best_subflow)}
        ELSE IF fallback # NULL THEN {Early(0, {fallback}, data, cgd, NULL, fallback)}
        ELSE {Early(-EINVAL, {}, data, cgd, NULL, NULL)}

\* the BLEST-style check of xlayer.c and blest.c: slow is the default subflow
blest_hol_check(ps, cn, data, cgd, now, t, minrtt, dflt, maxdr, fast) ==
    LET d3          == blest_update_lambda(cn.retrans, ps[dflt], data, now, t)
        linger      == blest_estimate_linger_time(ps[dflt], d3)
        fast_bytes  == blest_estimate_bytes(ps[fast], linger, d3)
        avail_space == avail_space_of(ps[dflt], cn)
    IN  IF LtW(avail_space, fast_bytes)
        THEN Outcome(-EAGAIN, {}, [d3 EXCEPT !.hol_prevented = @ + 1], cgd,
                     minrtt, dflt, maxdr, TRUE, TRUE, fast_bytes, avail_space)
        ELSE Outcome(0, {dflt}, d3, cgd,
                     minrtt, dflt, maxdr, TRUE, FALSE, fast_bytes, avail_space)

\* BLEST running its HoL check without first comparing the two subflows
blest_get_subflow_unconditional_check(ps, cn, data, cgd, now, t) ==
    LET d1     == [data EXCEPT !.total_decisions = @ + 1]
        f      == find_min_rtt_subflow(ps, d1)
        minrtt == f.sub
        dflt   == __mptcp_sched_minrtt_get_subflow(ps)
    IN  IF minrtt = NULL THEN {Early(-EAGAIN, {}, f.data, cgd, NULL, NULL)}
        ELSE IF dflt = NULL THEN {Early(-EAGAIN, {}, f.data, cgd, minrtt, NULL)}
        ELSE {blest_hol_check(ps, cn, f.data, cgd, now, t, minrtt, dflt, NULL, minrtt)}

\* BLEST counting a decision only when the call reaches the HoL check
blest_get_subflow_late_count(ps, cn, data, cgd, now, t) ==
    LET f      == find_min_rtt_subflow(ps, data)
        d1     == [f.data EXCEPT !.total_decisions = @ + 1]
        minrtt == f.sub
        dflt   == __mptcp_sched_minrtt_get_subflow(ps)
    IN  IF minrtt = NULL THEN {Early(-EAGAIN, {}, f.data, cgd, NULL, NULL)}
        ELSE IF dflt = NULL THEN {Early(-EAGAIN, {}, f.data, cgd, minrtt, NULL)}
        ELSE IF dflt # minrtt
        THEN {blest_hol_check(ps, cn, d1, cgd, now, t, minrtt, dflt, NULL, minrtt)}
        ELSE {Outcome(0, {dflt}, f.data, cgd, minrtt, dflt, NULL,
                      FALSE, FALSE, U32(0), U32(0))}

mptcp_sched_blest_get_subflow(ps, cn, data, cgd, now, t) ==
    LET d1     == [data EXCEPT !.total_decisions = @ + 1]
        f      == find_min_rtt_subflow(ps, d1)
        minrtt == f.sub
        dflt   == __mptcp_sched_minrtt_get_subflow(ps)
    IN  IF minrtt = NULL THEN {Early(-EAGAIN, {}, f.data, cgd, NULL, NULL)}
        ELSE IF dflt = NULL THEN {Early(-EAGAIN, {}, f.data, cgd, minrtt, NULL)}
        ELSE IF ~ps[dflt].ssk \/ ~ps[minrtt].ssk
        THEN {Early(-EAGAIN, {}, f.data, cgd, minrtt, dflt)}
        ELSE IF dflt # minrtt
        THEN {blest_hol_check(ps, cn, f.data, cgd, now, t, minrtt, dflt, NULL, minrtt)}
        ELSE {Outcome(0, {dflt}, f.data, cgd, minrtt, dflt, NULL,
                      FALSE, FALSE, U32(0), U32(0))}

\* the older BLEST: bounds in common_global_data, own estimators and lambda
mptcp_sched_blest_get_subflow_p000(ps, cn, data, cgd, now, t) ==
    LET d1     == [data EXCEPT !.total_decisions = @ + 1]
        f      == find_min_rtt_subflow_common(ps, cgd)
        minrtt == f.sub
        own    == __mptcp_sched_minrtt_get_subflow(ps)
        dflt   == IF own = NULL THEN minrtt ELSE own
    IN  IF minrtt = NULL THEN {Early(-EINVAL, {}, d1, f.data, NULL, NULL)}
        ELSE IF ps[dflt].ssk /\ ps[minrtt].ssk /\ dflt # minrtt
        THEN LET d3          == blest_update_lambda_p000(cn.retrans, ps[dflt], d1, now, t)
                 linger      == blest_estimate_linger_time_p000(ps[dflt])
                 fast_bytes  == blest_estimate_bytes_p000(ps[minrtt], linger, d3)
                 avail_space == avail_space_of(ps[dflt], cn)
             IN  IF LtW(avail_space, fast_bytes)
                 THEN {Outcome(-EAGAIN, {}, [d3 EXCEPT !.hol_prevented = @ + 1], f.data,
                               minrtt, dflt, NULL, TRUE, TRUE, fast_bytes, avail_space)}
                 ELSE {Outcome(0, {dflt}, d3, f.data,
                               minrtt, dflt, NULL, TRUE, FALSE, fast_bytes, avail_space)}
        ELSE {Outcome(0, {dflt}, d1, f.data, minrtt, dflt, NULL,
                      FALSE, FALSE, U32(0), U32(0))}


(***************************************************************************)
(* XLayer: classification by link class and the bitrate-based choice.      *)
(***************************************************************************)
RECURSIVE ClassifyLoop(_, _, _, _)
\* the last available subflow of each class; a class with none keeps the
\* value the local variable had before the loop
ClassifyLoop(ps, i, wifi_subflow, nr_subflow) ==
    IF i > Len(ps) THEN [wifi |-> wifi_subflow, nr |-> nr_subflow]
    ELSE IF ~mptcp_subflow_is_available(ps[i]) \/ ~ps[i].ssk
    THEN ClassifyLoop(ps, i + 1, wifi_subflow, nr_subflow)
    ELSE IF ps[i].wifi THEN ClassifyLoop(ps, i + 1, i, nr_subflow)
    ELSE ClassifyLoop(ps, i + 1, wifi_subflow, i)

\* the selection with the bitrate comparison reversed
select_by_bitrate_reversed(c, m, minrtt) ==
    IF c.wifi # NULL /\ c.nr # NULL
    THEN IF m.wifi > 0 /\ m.nr > 0
         THEN (IF m.wifi < m.nr THEN c.wifi ELSE c.nr)
         ELSE minrtt
    ELSE IF c.wifi # NULL THEN c.wifi
    ELSE IF c.nr # NULL THEN c.nr
    ELSE minrtt

\* the cross-layer selection: higher bitrate, else the only class, else minRTT
select_by_bitrate(c, m, minrtt) ==
    IF c.wifi # NULL /\ c.nr # NULL
    THEN IF m.wifi > 0 /\ m.nr > 0
         THEN (IF m.wifi > m.nr THEN c.wifi ELSE c.nr)
         ELSE minrtt
    ELSE IF c.wifi # NULL THEN c.wifi
    ELSE IF c.nr # NULL THEN c.nr
    ELSE minrtt

\* what an unassigned local pointer of xlayer.c can hold when it is read:
\* NULL, the address of a subflow left on the stack, or no subflow at all
Unassigned == {NULL, WILD} \cup Paths

\* xlayer.c once wifi_subflow and nr_subflow hold uw and un before the loop
xlayer_decide(ps, cn, m, data, cgd, now, t, uw, un) ==
    LET d1     == [data EXCEPT !.total_decisions = @ + 1]
        f      == find_min_rtt_subflow(ps, d1)
        minrtt == f.sub
        own    == __mptcp_sched_minrtt_get_subflow(ps)
        dflt   == IF own = NULL THEN minrtt ELSE own
        maxdr  == select_by_bitrate(ClassifyLoop(ps, 1, uw, un), m, minrtt)
        skip   == Outcome(0, {dflt}, f.data, cgd, minrtt, dflt, maxdr,
                          FALSE, FALSE, U32(0), U32(0))
    IN  IF minrtt = NULL THEN {Early(-EINVAL, {}, f.data, cgd, NULL, NULL)}
        ELSE IF maxdr = WILD
        THEN \* mptcp_subflow_tcp_sock() and tcp_sk() read through the wild
             \* pointer: a fault, a NULL socket, or an estimate of anything
             LET d3          == blest_update_lambda(cn.retrans, ps[dflt], f.data, now, t)
                 avail_space == avail_space_of(ps[dflt], cn)
             IN  {Early(OOPS, {}, f.data, cgd, minrtt, dflt), skip}
                 \cup {IF LtW(avail_space, fb)
                       THEN Outcome(-EAGAIN, {}, [d3 EXCEPT !.hol_prevented = @ + 1], cgd,
                                    minrtt, dflt, maxdr, TRUE, TRUE, fb, avail_space)
                       ELSE Outcome(0, {dflt}, d3, cgd,
                                    minrtt, dflt, maxdr, TRUE, FALSE, fb, avail_space)
                       : fb \in {U32(0), U32_MAX}}
        ELSE IF ps[dflt].ssk /\ ps[maxdr].ssk /\ dflt # maxdr
        THEN {blest_hol_check(ps, cn, f.data, cgd, now, t, minrtt, dflt, maxdr, maxdr)}
        ELSE {skip}

\* a local the loop assigns no longer holds what it held before the loop
mptcp_sched_xlayer_get_subflow(ps, cn, m, data, cgd, now, t) ==
    LET c == ClassifyLoop(ps, 1, NULL, NULL)
    IN  UNION {xlayer_decide(ps, cn, m, data, cgd, now, t, uw, un) :
               uw \in IF c.wifi # NULL THEN {NULL} ELSE Unassigned,
               un \in IF c.nr # NULL THEN {NULL} ELSE Unassigned}

\* the older XLayer: locals start NULL, the fastest subflow is scheduled on
\* HoL risk, lambda is updated in common_global_data
mptcp_sched_xlayer_get_subflow_p003(ps, cn, m, data, cgd, now, t) ==
    LET d1      == [data EXCEPT !.total_decisions = @ + 1]
        f       == find_min_rtt_subflow_common(ps, cgd)
        fastest == f.sub
        best    == select_by_bitrate(ClassifyLoop(ps, 1, NULL, NULL), m, fastest)
    IN  IF fastest = NULL THEN {Early(-EINVAL, {}, d1, f.data, NULL, NULL)}
        ELSE IF best = NULL THEN {Early(-EINVAL, {}, d1, f.data, fastest, NULL)}
        ELSE IF best = fastest
        THEN {Outcome(0, {best}, d1, f.data, fastest, NULL, best,
                      FALSE, FALSE, U32(0), U32(0))}
        ELSE LET c3            == common_update_lambda(cn.retrans, ps[best], f.data, now, t)
                 slow_inflight == U32(ps[best].unacked)
                 fast_capacity == MulW(U32(ps[fastest].snd_cwnd), U32(ps[fastest].mss_cache), 2)
                 meta_wnd      == SubW(U32(cn.snd_wnd), U32(cn.meta_inflight))
                 risk == /\ LtW(MulW(fast_capacity, U32(1000), 2),
                                MulW(slow_inflight, U32(d1.lambda_1000), 2))
                         /\ LtW(meta_wnd, fast_capacity)
             IN  IF risk
                 THEN {Outcome(0, {fastest}, [d1 EXCEPT !.hol_prevented = @ + 1], c3,
                               fastest, NULL, best, TRUE, TRUE, fast_capacity, meta_wnd)}
                 ELSE {Outcome(0, {best}, d1, c3,
                               fastest, NULL, best, TRUE, FALSE, fast_capacity, meta_wnd)}


(***************************************************************************)
(* The connection under a scheduler.                                       *)
(***************************************************************************)
Schedulers == {"minrtt", "blest", "blest_p000", "xlayer", "xlayer_p003"}

UsesMetrics(s) == s \in {"xlayer", "xlayer_p003"}

\* module parameters as loaded: lambda 1.2 within [1.0, 1.3], steps 1% and 4%
DefaultTunables ==
    [lambda |-> 12, max_lambda |-> 13, min_lambda |-> 10,
     dyn_lambda_good |-> 10, dyn_lambda_bad |-> 40]

\* a subflow as the host stack presents it.  health "ok" passes the filter,
\* "cwnd_limited" has a full congestion window, "closed" cannot send at all
PathState(health, backup, srtt_us, wifi) ==
    [ssk |-> TRUE,
     active |-> health # "closed",
     can_send |-> health # "closed",
     mem_free |-> TRUE,
     packets_in_flight |-> IF health = "cwnd_limited" THEN 20 ELSE 18,
     snd_cwnd |-> 20,
     ca_state |-> "Open",
     wnd_room |-> TRUE,
     probes_out |-> 0,
     backup |-> backup,
     srtt_us |-> srtt_us,
     snd_ssthresh |-> TCP_INFINITE_SSTHRESH,
     mss_cache |-> 1460,
     unacked |-> IF health = "cwnd_limited" THEN 20 * 1460 ELSE 18 * 1460,
     wifi |-> wifi]

\* tp->srtt_us is 8 times the smoothed RTT: unmeasured, 1 ms, 3 ms
SrttValues == {0, 8000, 24000}

PathStates(s) ==
    {PathState(h, b, r, w) :
        h \in IF s = "minrtt" THEN {"ok", "cwnd_limited", "closed"}
                            ELSE {"ok", "cwnd_limited"},
        b \in BOOLEAN, r \in SrttValues,
        w \in IF UsesMetrics(s) THEN BOOLEAN ELSE {FALSE}}

\* the meta socket: send window, retransmission signal, bytes sent and unacked
ConnStates(s) ==
    IF s = "minrtt" THEN {[snd_wnd |-> 5840, retrans |-> FALSE, meta_inflight |-> 0]}
    ELSE {[snd_wnd |-> w, retrans |-> r, meta_inflight |-> 0] :
             w \in {5840, 1000000}, r \in BOOLEAN}

\* bitrates the metrics thread and the proc file can report
\* (100, 0): WiFi measured, the 5G bitrate never configured
MetricStates ==
    {[wifi |-> 100, nr |-> 50], [wifi |-> 50, nr |-> 100], [wifi |-> 100, nr |-> 0]}

\* the control state each scheduler's init leaves behind
InitCtl(s, t) ==
    [lambda_1000 |-> IF s = "minrtt" THEN 0 ELSE t.lambda * 100,
     last_lambda_update |-> U32(0),
     min_srtt_us |-> IF s = "blest" THEN U32_MAX ELSE U32(0),
     max_srtt_us |-> U32(0),
     total_decisions |-> 0,
     hol_prevented |-> 0]

\* common_global_data as statically initialised
InitCommon ==
    [lambda_1000 |-> 1200, last_lambda_update |-> U32(0),
     min_srtt_us |-> U32_MAX, max_srtt_us |-> U32(0)]

NoCall ==
    [op |-> "none", calls |-> 0, pre |-> InitCtl("minrtt", DefaultTunables),
     precommon |-> InitCommon, metrics |-> [wifi |-> -1, nr |-> -1], now |-> U32(0)]
      @@ Early(0, {}, InitCtl("minrtt", DefaultTunables), InitCommon, NULL, NULL)

Init ==
    /\ sched \in Schedulers
    /\ paths \in [Paths -> PathStates(sched)]
    /\ conn \in ConnStates(sched)
    /\ metrics = [wifi |-> -1, nr |-> -1]
    /\ tun = DefaultTunables
    /\ clock = [boot |-> U32(2), ticks |-> 0]
    /\ ctl = InitCtl(sched, tun)
    /\ common = InitCommon
    /\ last = NoCall
    /\ Sequential

Alive == last.ret # OOPS /\ last.calls < MaxDecisions

\* the state a get_subflow call with outcome r leaves
Called(r) ==
    /\ ctl' = r.ctl
    /\ common' = r.common
    /\ last' = [op |-> "get_subflow", calls |-> last.calls + 1,
                pre |-> ctl, precommon |-> common,
                metrics |-> metrics, now |-> tcp_jiffies32] @@ r
    /\ UNCHANGED <<threads, lock, heap, sched, paths, conn, metrics, tun, clock>>

MinrttGetSubflow ==
    /\ sched = "minrtt" /\ Alive
    /\ \E r \in mptcp_sched_minrtt_get_subflow(paths, conn, ctl, common, tcp_jiffies32, tun) :
          Called(r)

BlestGetSubflow ==
    /\ sched = "blest" /\ Alive
    /\ \E r \in mptcp_sched_blest_get_subflow(paths, conn, ctl, common, tcp_jiffies32, tun) :
          Called(r)

BlestP000GetSubflow ==
    /\ sched = "blest_p000" /\ Alive
    /\ \E r \in mptcp_sched_blest_get_subflow_p000(paths, conn, ctl, common, tcp_jiffies32, tun) :
          Called(r)

XlayerGetSubflow ==
    /\ sched = "xlayer" /\ Alive
    /\ \E r \in mptcp_sched_xlayer_get_subflow(paths, conn, metrics, ctl, common,
                                               tcp_jiffies32, tun) :
          Called(r)

XlayerP003GetSubflow ==
    /\ sched = "xlayer_p003" /\ Alive
    /\ \E r \in mptcp_sched_xlayer_get_subflow_p003(paths, conn, metrics, ctl, common,
                                                    tcp_jiffies32, tun) :
          Called(r)

\* xlayer_update_metrics: both bitrates are replaced under the lock
xlayer_update_metrics(wifi_rate, nr_rate) ==
    /\ UsesMetrics(sched) /\ last.ret # OOPS
    /\ metrics = [wifi |-> -1, nr |-> -1]
    /\ metrics' = [wifi |-> wifi_rate, nr |-> nr_rate]
    /\ UNCHANGED <<threads, lock, heap, sched, paths, conn, tun, clock, ctl, common, last>>

UpdateMetrics == \E m \in MetricStates : xlayer_update_metrics(m.wifi, m.nr)

\* one jiffy passes
Tick ==
    /\ last.ret # OOPS
    /\ clock.ticks < MaxTicks
    /\ clock' = [clock EXCEPT !.ticks = @ + 1]
    /\ UNCHANGED <<threads, lock, heap, sched, paths, conn, metrics, tun, ctl, common, last>>

Next ==
    \/ MinrttGetSubflow
    \/ BlestGetSubflow
    \/ BlestP000GetSubflow
    \/ XlayerGetSubflow
    \/ XlayerP003GetSubflow
    \/ UpdateMetrics
    \/ Tick

Spec == Init /\ [][Next]_vars

(***************************************************************************)
(* The lambda controller on its own: update calls at arbitrary times with  *)
(* arbitrary retransmission flags, under varied module parameters.         *)
(***************************************************************************)
\* update calls explored per behaviour
MaxUpdates == 3

\* clock ticks explored per behaviour, enough for a 3 ms RTT to elapse
MaxLambdaTicks == 3

LambdaVariants == {"blest_h", "blest_p000", "common"}

\* module parameters are bytes writable at load time: the defaults, a single
\* admissible value, an inverted range, and the largest steps
TunableStates ==
    {[lambda |-> 12, max_lambda |-> r[2], min_lambda |-> r[1],
      dyn_lambda_good |-> st[1], dyn_lambda_bad |-> st[2]] :
        r \in {<<10, 13>>, <<12, 12>>, <<13, 10>>},
        st \in {<<10, 40>>, <<255, 255>>}}

NoUpdate ==
    [op |-> "none", calls |-> 0, path |-> 1, retrans |-> FALSE, now |-> U32(0),
     pre |-> InitCtl("blest", DefaultTunables), precommon |-> InitCommon,
     performed |-> FALSE, had_before |-> FALSE, had_update |-> FALSE]

InitLambda ==
    /\ sched \in LambdaVariants
    /\ paths \in [Paths -> {PathState("ok", FALSE, r, FALSE) : r \in SrttValues}]
    /\ conn = [snd_wnd |-> 5840, retrans |-> FALSE, meta_inflight |-> 0]
    /\ metrics = [wifi |-> -1, nr |-> -1]
    /\ tun \in TunableStates
    /\ clock \in {[boot |-> b, ticks |-> 0] : b \in {U32(2), SubW(U32_MAX, U32(1))}}
    /\ ctl = InitCtl("blest", tun)
    /\ common = InitCommon
    /\ last = NoUpdate
    /\ Sequential

\* the state an update call on subflow i leaves, and what it was given
Updated(i, retrans, data, cgd, performed) ==
    /\ last.calls < MaxUpdates
    /\ ctl' = data
    /\ common' = cgd
    /\ last' = [op |-> "update_lambda", calls |-> last.calls + 1,
                path |-> i, retrans |-> retrans, now |-> tcp_jiffies32,
                pre |-> ctl, precommon |-> common,
                performed |-> performed,
                had_before |-> last.had_update,
                had_update |-> last.had_update \/ performed]
    /\ UNCHANGED <<threads, lock, heap, sched, paths, conn, metrics, tun, clock>>

BlestUpdateLambda ==
    /\ sched = "blest_h"
    /\ \E i \in Paths, retrans \in BOOLEAN :
          Updated(i, retrans,
                  blest_update_lambda(retrans, paths[i], ctl, tcp_jiffies32, tun),
                  common,
                  ~blest_rate_limited(paths[i], ctl, tcp_jiffies32))

BlestP000UpdateLambda ==
    /\ sched = "blest_p000"
    /\ \E i \in Paths, retrans \in BOOLEAN :
          Updated(i, retrans,
                  blest_update_lambda_p000(retrans, paths[i], ctl, tcp_jiffies32, tun),
                  common,
                  ~blest_rate_limited(paths[i], ctl, tcp_jiffies32))

CommonUpdateLambda ==
    /\ sched = "common"
    /\ \E i \in Paths, retrans \in BOOLEAN :
          Updated(i, retrans, ctl,
                  common_update_lambda(retrans, paths[i], common, tcp_jiffies32, tun),
                  paths[i].ssk /\ ~common_rate_limited(paths[i], common, tcp_jiffies32))

\* a scheduling pass of the shared library observes the subflows' RTTs
ObservePaths ==
    /\ sched = "common"
    /\ common' = find_min_rtt_subflow_common(paths, common).data
    /\ common' # common
    /\ UNCHANGED <<threads, lock, heap, sched, paths, conn, metrics, tun, clock, ctl, last>>

LambdaTick ==
    /\ clock.ticks < MaxLambdaTicks
    /\ clock' = [clock EXCEPT !.ticks = @ + 1]
    /\ UNCHANGED <<threads, lock, heap, sched, paths, conn, metrics, tun, ctl, common, last>>

NextLambda ==
    \/ BlestUpdateLambda
    \/ BlestP000UpdateLambda
    \/ CommonUpdateLambda
    \/ ObservePaths
    \/ LambdaTick

SpecLambda == InitLambda /\ [][NextLambda]_vars

(***************************************************************************)
(* The estimators on their own, after a scheduling pass has recorded the   *)
(* RTT bounds: one subflow and one time budget, its deliverable bytes      *)
(* under two values of lambda and its linger time.                         *)
(***************************************************************************)
\* RTTs of 1 ms and 3 ms, congestion windows of 20 and 40 segments, in slow
\* start or past it; and the degenerate subflows: no RTT sample yet, a
\* congestion window of 0, or both
EstPathStates ==
    {[PathState("ok", FALSE, r, FALSE) EXCEPT !.snd_cwnd = c, !.snd_ssthresh = th] :
        r \in {8000, 24000}, c \in {20, 40}, th \in {TCP_INFINITE_SSTHRESH, 30}}
    \cup {[PathState("ok", FALSE, 0, FALSE) EXCEPT !.snd_cwnd = 0],
          PathState("ok", FALSE, 0, FALSE),
          [PathState("ok", FALSE, 8000, FALSE) EXCEPT !.snd_cwnd = 0, !.snd_ssthresh = 30]}

\* time budgets from none to twenty average RTTs
TimeBudgets == {0, 3000, 24000, 120000, 160000}

LambdaValues == {1000, 1200, 1300}

InitEst ==
    /\ sched \in LambdaVariants
    /\ paths \in [Paths -> EstPathStates]
    /\ conn = [snd_wnd |-> 5840, retrans |-> FALSE, meta_inflight |-> 0]
    /\ metrics = [wifi |-> -1, nr |-> -1]
    /\ tun = DefaultTunables
    /\ clock = [boot |-> U32(2), ticks |-> 0]
    /\ ctl = find_min_rtt_subflow(paths, InitCtl("blest", tun)).data
    /\ common = find_min_rtt_subflow_common(paths, InitCommon).data
    /\ last = [op |-> "none", path |-> 1, time_us |-> 0, lo |-> 1000, hi |-> 1000,
               lo_bytes |-> U32(0), hi_bytes |-> U32(0), linger |-> U32(0)]
    /\ Sequential

\* the estimates of subflow i for time_us under lambda lo and under lambda hi,
\* and its linger time; the estimators keep no state, so one call per
\* behaviour covers them
Estimated(i, time_us, lo, hi, lo_bytes, hi_bytes, linger) ==
    /\ last.op = "none"
    /\ lo <= hi
    /\ last' = [op |-> "estimate", path |-> i, time_us |-> time_us,
                lo |-> lo, hi |-> hi, lo_bytes |-> lo_bytes, hi_bytes |-> hi_bytes,
                linger |-> linger]
    /\ UNCHANGED <<threads, lock, heap, sched, paths, conn, metrics, tun, clock, ctl, common>>

BlestEstimateBytes ==
    /\ sched = "blest_h"
    /\ \E i \in Paths, time_us \in TimeBudgets, lo \in LambdaValues, hi \in LambdaValues :
          Estimated(i, time_us, lo, hi,
              blest_estimate_bytes(paths[i], U32(time_us), [ctl EXCEPT !.lambda_1000 = lo]),
              blest_estimate_bytes(paths[i], U32(time_us), [ctl EXCEPT !.lambda_1000 = hi]),
              blest_estimate_linger_time(paths[i], ctl))

BlestP000EstimateBytes ==
    /\ sched = "blest_p000"
    /\ \E i \in Paths, time_us \in TimeBudgets, lo \in LambdaValues, hi \in LambdaValues :
          Estimated(i, time_us, lo, hi,
              blest_estimate_bytes_p000(paths[i], U32(time_us),
                                        [ctl EXCEPT !.lambda_1000 = lo]),
              blest_estimate_bytes_p000(paths[i], U32(time_us),
                                        [ctl EXCEPT !.lambda_1000 = hi]),
              blest_estimate_linger_time_p000(paths[i]))

CommonEstimateBytes ==
    /\ sched = "common"
    /\ \E i \in Paths, time_us \in TimeBudgets, lo \in LambdaValues, hi \in LambdaValues :
          Estimated(i, time_us, lo, hi,
              common_estimate_bytes(paths[i], U32(time_us),
                                    [common EXCEPT !.lambda_1000 = lo]),
              common_estimate_bytes(paths[i], U32(time_us),
                                    [common EXCEPT !.lambda_1000 = hi]),
              common_estimate_linger_time(paths[i], common))

NextEst ==
    \/ BlestEstimateBytes
    \/ BlestP000EstimateBytes
    \/ CommonEstimateBytes

SpecEst == InitEst /\ [][NextEst]_vars

(***************************************************************************)
(* Vocabulary of the properties.                                           *)
(***************************************************************************)
IsCall == last.op = "get_subflow"

Returned == IsCall /\ last.ret # OOPS

BlestLike == {"blest", "blest_p000"}

XlayerLike == {"xlayer", "xlayer_p003"}

Available(i) == mptcp_subflow_is_available(paths[i])

\* the subflow the variant prefers: BLEST's default subflow, XLayer's
\* bitrate-based choice
Candidate == IF sched \in XlayerLike THEN last.maxdr ELSE last.dflt

\* the subflow the candidate is compared with: the minimum-RTT subflow, which
\* in xlayer.c is the result of the minRTT selection
Fastest == IF sched \in {"xlayer", "minrtt"} THEN last.dflt ELSE last.minrtt

\* the HoL check ran and found fast_bytes > avail_space
HolRisk == last.hol /\ LtW(last.avail_space, last.fast_bytes)

(***************************************************************************)
(* C1.  In the BLEST and XLayer get_subflow, whenever candidate and        *)
(* fastest are different paths and the HoL check finds                     *)
(* fast_bytes > avail_space, the call marks the fastest path scheduled,    *)
(* returns success and increments hol_prevented by exactly 1.              *)
(* blest.c and xlayer.c increment the counter but return -EAGAIN and mark  *)
(* nothing, so the statement is violated.                                  *)
(***************************************************************************)
C1_HolSelectsFastest ==
    (Returned /\ sched \in BlestLike \cup XlayerLike
       /\ Candidate # Fastest /\ HolRisk)
    => /\ last.ret = 0
       /\ last.marked = {Fastest}
       /\ ctl.hol_prevented = last.pre.hol_prevented + 1

(***************************************************************************)
(* C2.  The BLEST and XLayer get_subflow return an error only when no path *)
(* (backups included) is available: in every call where at least one path *)
(* is available, the call returns success with a path marked scheduled.    *)
(* Violated: -EAGAIN after the HoL check, and an error when every          *)
(* available path has an unmeasured RTT.                                   *)
(***************************************************************************)
C2_ErrorOnlyWithoutPaths ==
    (Returned /\ sched \in BlestLike \cup XlayerLike /\ \E i \in Paths : Available(i))
    => last.ret = 0 /\ last.marked # {}

C4_BackupFallback ==
    (Returned /\ (\A i \in Paths : Available(i) => paths[i].backup)
              /\ (\E i \in Paths : Available(i) /\ paths[i].backup))
    => /\ __mptcp_sched_minrtt_get_subflow(paths) # NULL
       /\ paths[__mptcp_sched_minrtt_get_subflow(paths)].backup
       /\ last.ret = 0

(***************************************************************************)
(* C5.  When candidate and fastest are the same path, get_subflow marks    *)
(* that path scheduled, never evaluates the linger-time or deliverable-    *)
(* bytes estimators, and leaves lambda, last_lambda_update and             *)
(* hol_prevented unchanged.                                                *)
(***************************************************************************)
C5_SamePathFastPath ==
    (Returned /\ Candidate # NULL /\ Candidate = Fastest)
    => /\ last.ret = 0
       /\ last.marked = {Candidate}
       /\ ~last.hol
       /\ ctl.lambda_1000 = last.pre.lambda_1000
       /\ ctl.last_lambda_update = last.pre.last_lambda_update
       /\ ctl.hol_prevented = last.pre.hol_prevented
       /\ common.lambda_1000 = last.precommon.lambda_1000
       /\ common.last_lambda_update = last.precommon.last_lambda_update

\* two available paths, and the variant's candidate is the fastest one
C5_Witness ==
    /\ Returned /\ sched \in {"blest", "xlayer"}
    /\ \A i \in Paths : Available(i)
    /\ Candidate # NULL /\ Candidate = Fastest
    /\ last.marked = {Candidate}

(***************************************************************************)
(* C9.  Every call of the minRTT, BLEST or XLayer get_subflow marks        *)
(* exactly one path as scheduled when it returns success and marks no path *)
(* when it returns an error.                                               *)
(***************************************************************************)
C9_OneMarkOrNone ==
    Returned
    => /\ last.ret = 0 => Cardinality(last.marked) = 1
       /\ last.ret < 0 => last.marked = {}
       /\ last.marked \subseteq Paths

\* both kinds of call happened: here a success that marked the fastest path
\* after a HoL risk
C9_Witness ==
    /\ Returned /\ sched = "xlayer_p003" /\ last.fired
    /\ last.ret = 0 /\ Cardinality(last.marked) = 1

IsUpdate == last.op = "update_lambda"

\* the lambda and timestamp the variant in use keeps, now and before the call
LambdaNow == IF sched = "common" THEN common.lambda_1000 ELSE ctl.lambda_1000

StampNow == IF sched = "common" THEN common.last_lambda_update ELSE ctl.last_lambda_update

LambdaBefore ==
    IF sched = "common" THEN last.precommon.lambda_1000 ELSE last.pre.lambda_1000

StampBefore ==
    IF sched = "common" THEN last.precommon.last_lambda_update
    ELSE last.pre.last_lambda_update

\* ticks between the previous update and the call
Elapsed == SubW(last.now, StampBefore)

\* the RTT of the subflow passed to the call, in ticks
SlowPathInterval == usecs_to_jiffies(Shr3(U32(paths[last.path].srtt_us)))

\* the shared minimum RTT bound at the call, in ticks
MinRttInterval == usecs_to_jiffies(Shr3(last.precommon.min_srtt_us))

(***************************************************************************)
(* C6.  For every sequence of lambda-update calls (any retransmission      *)
(* flags, any timestamps, tunables with min_lambda <= max_lambda), after   *)
(* every call that performs an update the stored lambda_1000 satisfies     *)
(* min_lambda*100 <= lambda_1000 <= max_lambda*100.                        *)
(***************************************************************************)
C6_LambdaInRange ==
    (IsUpdate /\ last.performed /\ tun.min_lambda <= tun.max_lambda)
    => /\ tun.min_lambda * 100 <= LambdaNow
       /\ LambdaNow <= tun.max_lambda * 100

\* an update under retransmissions that the upper cap had to cut back
C6_Witness ==
    /\ IsUpdate /\ last.performed /\ last.retrans
    /\ tun.min_lambda < tun.max_lambda
    /\ LambdaBefore + tun.dyn_lambda_bad > tun.max_lambda * 100
    /\ LambdaNow = tun.max_lambda * 100

(***************************************************************************)
(* C7.  Lambda updates are rate-limited: a call that follows the previous  *)
(* performed update by less than the interval changes neither lambda nor   *)
(* last_lambda_update.  The interval is the RTT, in ticks, of the slow     *)
(* path passed to blest_update_lambda, and the shared minimum RTT bound,   *)
(* in ticks, in common_update_lambda.                                      *)
(***************************************************************************)
C7_RateLimited ==
    (IsUpdate /\ last.had_before
       /\ LtW(Elapsed, IF sched = "common" THEN MinRttInterval ELSE SlowPathInterval))
    => LambdaNow = LambdaBefore /\ StampNow = StampBefore

\* a call one tick after a performed update, on a path whose RTT is longer,
\* that changed nothing
C7_Witness ==
    /\ IsUpdate /\ last.had_before /\ ~last.performed
    /\ Elapsed = U32(1)
    /\ LtW(Elapsed, IF sched = "common" THEN MinRttInterval ELSE SlowPathInterval)
    /\ LambdaNow = LambdaBefore /\ StampNow = StampBefore

\* C7 as first stated: the interval is the slow path's RTT in every variant
C7_Original ==
    (IsUpdate /\ last.had_before /\ LtW(Elapsed, SlowPathInterval))
    => LambdaNow = LambdaBefore /\ StampNow = StampBefore

(***************************************************************************)
(* C8.  Holding the path state and time budget fixed, the deliverable-     *)
(* bytes estimate is monotonic non-decreasing in lambda, so raising lambda *)
(* can turn 'select candidate' into 'HoL prevented' but never the reverse. *)
(* Violated: the 64-bit product is returned as a u32, and a larger lambda  *)
(* can wrap it to a smaller estimate.                                      *)
(***************************************************************************)
C8_MonotonicInLambda ==
    (last.op = "estimate" /\ last.lo <= last.hi)
    => LeW(last.lo_bytes, last.hi_bytes)

(***************************************************************************)
(* C11.  In the XLayer get_subflow, when the bitrate-chosen candidate      *)
(* differs from the fastest path and the HoL check does not fire           *)
(* (fast_bytes <= avail_space), the path marked scheduled is the           *)
(* candidate.  Violated: xlayer.c marks default_subflow, the result of the *)
(* minRTT selection, and never marks maxdr_subflow.                        *)
(***************************************************************************)
C11_NoRiskSelectsCandidate ==
    (Returned /\ sched \in XlayerLike
       /\ (\E i \in Paths : Available(i) /\ paths[i].wifi)
       /\ (\E i \in Paths : Available(i) /\ ~paths[i].wifi)
       /\ last.metrics.wifi > 0 /\ last.metrics.nr > 0
       /\ Candidate \in Paths /\ Fastest \in Paths /\ Candidate # Fastest
       /\ last.hol /\ ~HolRisk)
    => last.ret = 0 /\ last.marked = {Candidate}

\* subflow i is available and no available subflow has a smaller RTT
IsFastestAvailable(i) ==
    /\ i \in Paths /\ Available(i)
    /\ \A j \in Paths :
          Available(j) => LeW(mptcp_subflow_get_rtt(paths[i]), mptcp_subflow_get_rtt(paths[j]))

\* every available subflow is of one link class, and there is one
SingleClass ==
    /\ \E i \in Paths : Available(i)
    /\ \A i, j \in Paths : (Available(i) /\ Available(j)) => paths[i].wifi = paths[j].wifi

(***************************************************************************)
(* C12.  In the XLayer variant, when the available paths all belong to a   *)
(* single link class (possibly several of them), the candidate is the      *)
(* fastest (minimum-RTT) path.  Violated: the candidate is the last        *)
(* available subflow of the class in list order, whatever its RTT, and in  *)
(* xlayer.c the pointer of the absent class is read uninitialised.         *)
(***************************************************************************)
C12_SingleClassFastest ==
    (Returned /\ sched \in XlayerLike /\ last.minrtt # NULL /\ SingleClass)
    => IsFastestAvailable(Candidate)

\* an available subflow of each link class
BothClasses ==
    /\ \E i \in Paths : Available(i) /\ paths[i].wifi
    /\ \E i \in Paths : Available(i) /\ ~paths[i].wifi

(***************************************************************************)
(* C13.  In the XLayer variant, when paths of both link classes are        *)
(* available but at least one bitrate metric is invalid (non-positive:     *)
(* the initial -1, or a 5G bitrate never configured), the candidate is the *)
(* fastest (minimum-RTT) path and the call does not fail.  Violated: the   *)
(* call fails with -EINVAL when no available path has a measured RTT, and  *)
(* xlayer.c fails with -EAGAIN after its HoL check.                        *)
(***************************************************************************)
C13_InvalidMetricsFallback ==
    (Returned /\ sched \in XlayerLike /\ BothClasses
       /\ (last.metrics.wifi <= 0 \/ last.metrics.nr <= 0))
    => last.ret = 0 /\ IsFastestAvailable(Candidate)

(***************************************************************************)
(* C14.  The path selector returns a path whenever at least one available  *)
(* path exists, for every combination of RTT estimates, including when all *)
(* available paths have an RTT estimate of zero; it returns none only when *)
(* no path is available.  Violated: an unmeasured RTT becomes U32_MAX,      *)
(* which is never below the initial minimum, so such paths are not found.  *)
(***************************************************************************)
C14_SelectorFindsAvailable ==
    Returned
    => ((\E i \in Paths : Available(i)) <=> __mptcp_sched_minrtt_get_subflow(paths) # NULL)

(***************************************************************************)
(* C15.  A backup path is returned by the path selector (and scheduled by  *)
(* minRTT) only when no non-backup path is available: whenever some        *)
(* non-backup path passes the availability filter, the selected path is a  *)
(* non-backup path, whatever the RTT estimates.  Violated: when no         *)
(* available non-backup path has a measured RTT the first pass finds none  *)
(* and the backup pass returns a backup path.                              *)
(***************************************************************************)
C15_BackupOnlyAsLastResort ==
    (Returned /\ \E i \in Paths : Available(i) /\ ~paths[i].backup)
    => /\ __mptcp_sched_minrtt_get_subflow(paths) # NULL
       /\ ~paths[__mptcp_sched_minrtt_get_subflow(paths)].backup
       /\ sched = "minrtt" => \A i \in last.marked : ~paths[i].backup

(***************************************************************************)
(* The link metrics under concurrency: the metrics thread calls            *)
(* xlayer_update_metrics while scheduling paths call xlayer_get_metrics.   *)
(* Thread 1 is the metrics thread, the others are readers.  Each load and  *)
(* store of a field is a step of its own.                                  *)
(***************************************************************************)
\* scheduling-path threads reading the metrics
NReaders == 2

\* calls of xlayer_update_metrics the metrics thread makes
MaxWrites == 2

\* calls of xlayer_get_metrics each reader makes
MaxReads == 1

\* a spin lock taken without waiting for its holder
spin_lock_no_wait(t) == lock' = t

\* spin_lock: proceeds only when the lock is free
spin_lock(t) == lock = NULL /\ lock' = t

spin_unlock(t) == lock' = NULL

InitMetrics ==
    /\ sched = "xlayer"
    /\ paths = [i \in Paths |-> PathState("ok", FALSE, 8000, i = 1)]
    /\ conn = [snd_wnd |-> 5840, retrans |-> FALSE, meta_inflight |-> 0]
    /\ metrics = [wifi |-> -1, nr |-> -1]
    /\ tun = DefaultTunables
    /\ clock = [boot |-> U32(2), ticks |-> 0]
    /\ ctl = InitCtl(sched, tun)
    /\ common = InitCommon
    /\ last = [op |-> "none", thread |-> NULL, wifi |-> -1, nr |-> -1,
               written |-> {[wifi |-> -1, nr |-> -1]}]
    /\ threads = [t \in 1..(1 + NReaders) |-> [pc |-> "idle", wifi |-> -1, nr |-> -1, done |-> 0]]
    /\ lock = NULL
    /\ heap = [ptr |-> NULL, blocks |-> <<>>]

\* thread t moves to pc with its locals and call count as given
Step(t, pc, wifi, nr, done) ==
    threads' = [threads EXCEPT ![t] = [pc |-> pc, wifi |-> wifi, nr |-> nr, done |-> done]]

\* the metrics thread: collects the two bitrates, then xlayer_update_metrics
\* stores them one after the other inside the lock
xlayer_metrics_thread ==
    LET me == threads[1]
    IN  \/ /\ me.pc = "idle" /\ me.done < MaxWrites
           /\ \E m \in MetricStates :
                 /\ Step(1, "lock", m.wifi, m.nr, me.done)
                 /\ last' = [last EXCEPT !.op = "update_metrics", !.thread = 1,
                                         !.written = @ \cup {m}]
           /\ UNCHANGED <<sched, paths, conn, metrics, tun, clock, ctl, common, lock, heap>>
        \/ /\ me.pc = "lock"
           /\ spin_lock(1)
           /\ Step(1, "wifi", me.wifi, me.nr, me.done)
           /\ UNCHANGED <<sched, paths, conn, metrics, tun, clock, ctl, common, last, heap>>
        \/ /\ me.pc = "wifi"
           /\ metrics' = [metrics EXCEPT !.wifi = me.wifi]
           /\ Step(1, "nr", me.wifi, me.nr, me.done)
           /\ UNCHANGED <<sched, paths, conn, tun, clock, ctl, common, last, lock, heap>>
        \/ /\ me.pc = "nr"
           /\ metrics' = [metrics EXCEPT !.nr = me.nr]
           /\ Step(1, "unlock", me.wifi, me.nr, me.done)
           /\ UNCHANGED <<sched, paths, conn, tun, clock, ctl, common, last, lock, heap>>
        \/ /\ me.pc = "unlock"
           /\ spin_unlock(1)
           /\ Step(1, "idle", me.wifi, me.nr, me.done + 1)
           /\ UNCHANGED <<sched, paths, conn, metrics, tun, clock, ctl, common, last, heap>>

\* a scheduling path in xlayer_get_metrics: loads the two bitrates one after
\* the other inside the lock and returns them
xlayer_get_metrics(t) ==
    LET me == threads[t]
    IN  \/ /\ me.pc = "idle" /\ me.done < MaxReads
           /\ spin_lock(t)
           /\ Step(t, "wifi", me.wifi, me.nr, me.done)
           /\ UNCHANGED <<sched, paths, conn, metrics, tun, clock, ctl, common, last, heap>>
        \/ /\ me.pc = "wifi"
           /\ Step(t, "nr", metrics.wifi, me.nr, me.done)
           /\ UNCHANGED <<sched, paths, conn, metrics, tun, clock, ctl, common, last, lock, heap>>
        \/ /\ me.pc = "nr"
           /\ Step(t, "unlock", me.wifi, metrics.nr, me.done)
           /\ UNCHANGED <<sched, paths, conn, metrics, tun, clock, ctl, common, last, lock, heap>>
        \/ /\ me.pc = "unlock"
           /\ spin_unlock(t)
           /\ Step(t, "idle", me.wifi, me.nr, me.done + 1)
           /\ last' = [last EXCEPT !.op = "get_metrics", !.thread = t,
                                   !.wifi = me.wifi, !.nr = me.nr]
           /\ UNCHANGED <<sched, paths, conn, metrics, tun, clock, ctl, common, heap>>

GetMetrics == \E t \in 2..(1 + NReaders) : xlayer_get_metrics(t)

NextMetrics ==
    \/ xlayer_metrics_thread
    \/ GetMetrics

SpecMetrics == InitMetrics /\ [][NextMetrics]_vars

(***************************************************************************)
(* C16.  Under any interleaving of the background metrics updater and      *)
(* scheduling-path readers, every (wifi, nr) pair returned by              *)
(* xlayer_get_metrics is either the initial pair or exactly the pair       *)
(* written by one single xlayer_update_metrics call: never a mix of two    *)
(* updates.                                                                *)
(***************************************************************************)
C16_NoTornSnapshot ==
    last.op = "get_metrics" => [wifi |-> last.wifi, nr |-> last.nr] \in last.written

\* a read that returned the pair of the second of two updates
C16_Witness ==
    /\ last.op = "get_metrics"
    /\ threads[1].done = MaxWrites
    /\ Cardinality(last.written) = 3
    /\ [wifi |-> last.wifi, nr |-> last.nr] = metrics
    /\ metrics # [wifi |-> -1, nr |-> -1]

(***************************************************************************)
(* Two connections on one scheduler.  The control state is a single global *)
(* (blest_global, xlayer_global, common_global_data) that every            *)
(* connection's init, get_subflow and release work on.  In blest.c and     *)
(* xlayer.c it is a pointer to a block that init allocates and release     *)
(* frees; in the older BLEST it is a static struct.  total_decisions++ is  *)
(* a load and a store, with the rest of the call after the store.          *)
(***************************************************************************)
\* connections using the scheduler
NConns == 2

Conns == 1..NConns

SharedSchedulers == {"blest", "xlayer", "blest_p000"}

\* blest.c and xlayer.c allocate the control state in init
UsesKzalloc(s) == s \in {"blest", "xlayer"}

\* the block the global pointer designates
Global == heap.blocks[heap.ptr]

\* the connection's ghost copy g of the global state, as init leaves it
InitOf(s, g) ==
    IF UsesKzalloc(s) THEN [g EXCEPT !.ctl = InitCtl(s, tun)]
    ELSE [g EXCEPT !.ctl.lambda_1000 = tun.lambda * 100,
                   !.ctl.total_decisions = 0,
                   !.ctl.hol_prevented = 0]

InitShared ==
    /\ sched \in SharedSchedulers
    /\ paths = [i \in Paths |->
                  PathState("ok", i = 1, IF i = 1 THEN 8000 ELSE 24000, i = 1)]
    /\ conn \in ConnStates(sched)
    /\ metrics = [wifi |-> -1, nr |-> -1]
    /\ tun = DefaultTunables
    /\ clock = [boot |-> U32(2), ticks |-> 0]
    /\ ctl = InitCtl(sched, tun)
    /\ common = InitCommon
    /\ heap = IF UsesKzalloc(sched) THEN [ptr |-> NULL, blocks |-> <<>>]
              ELSE [ptr |-> 1, blocks |-> <<[live |-> TRUE, data |-> InitCtl(sched, tun)]>>]
    /\ threads = [c \in Conns |->
                    [pc |-> "none", tmp |-> 0, calls |-> 0,
                     own |-> [ctl |-> InitCtl(sched, tun), common |-> InitCommon]]]
    /\ lock = NULL
    /\ last = [op |-> "none", conn |-> NULL, fault |-> "none", ret |-> 0,
               pre |-> [ctl |-> InitCtl(sched, tun), common |-> InitCommon],
               own_pre |-> [ctl |-> InitCtl(sched, tun), common |-> InitCommon],
               seq |-> [ctl |-> InitCtl(sched, tun), common |-> InitCommon]]

\* no fault has ended the run
Sound == last.fault = "none"

\* the get_subflow of scheduler s
SchedGetSubflow(s, data, cgd) ==
    CASE s = "blest" ->
           mptcp_sched_blest_get_subflow(paths, conn, data, cgd, tcp_jiffies32, tun)
      [] s = "xlayer" ->
           mptcp_sched_xlayer_get_subflow(paths, conn, metrics, data, cgd, tcp_jiffies32, tun)
      [] s = "blest_p000" ->
           mptcp_sched_blest_get_subflow_p000(paths, conn, data, cgd, tcp_jiffies32, tun)

\* init of connection c: a new zeroed block replaces whatever the global
\* pointer held (blest.c, xlayer.c), or the static struct is reset in place
SchedInit(c) ==
    /\ Sound /\ threads[c].pc = "none"
    /\ heap' = IF UsesKzalloc(sched)
               THEN [ptr |-> Len(heap.blocks) + 1,
                     blocks |-> Append(heap.blocks,
                                       [live |-> TRUE, data |-> InitCtl(sched, tun)])]
               ELSE [heap EXCEPT !.blocks[heap.ptr].data =
                                     InitOf(sched, [ctl |-> @, common |-> common]).ctl]
    /\ threads' = [threads EXCEPT ![c].pc = "idle",
                                  ![c].own = InitOf(sched, @)]
    /\ last' = [last EXCEPT !.op = "init", !.conn = c, !.seq = InitOf(sched, @)]
    /\ UNCHANGED <<sched, paths, conn, metrics, tun, clock, ctl, common, lock>>

\* a dereference of the global pointer after its block was freed
UseAfterFree(c, op) ==
    /\ last' = [last EXCEPT !.op = op, !.conn = c, !.fault = "use_after_free"]
    /\ UNCHANGED <<sched, paths, conn, metrics, tun, clock, ctl, common, lock, heap, threads>>

\* get_subflow of connection c, first half: total_decisions is loaded
GetSubflowLoad(c) ==
    /\ Sound /\ threads[c].pc = "idle" /\ threads[c].calls < MaxDecisions
    /\ IF ~Global.live THEN UseAfterFree(c, "get_subflow")
       ELSE /\ threads' = [threads EXCEPT ![c].pc = "loaded",
                                          ![c].tmp = Global.data.total_decisions]
            /\ UNCHANGED <<sched, paths, conn, metrics, tun, clock, ctl, common, lock,
                           heap, last>>

\* second half: the incremented count is stored and the decision is made on
\* the global state as it is by then
GetSubflowStore(c) ==
    /\ Sound /\ threads[c].pc = "loaded"
    /\ IF ~Global.live THEN UseAfterFree(c, "get_subflow")
       ELSE LET me   == threads[c]
                data == [Global.data EXCEPT !.total_decisions = me.tmp]
                own  == CHOOSE r \in SchedGetSubflow(sched, me.own.ctl, me.own.common) : TRUE
                seq  == CHOOSE r \in SchedGetSubflow(sched, last.seq.ctl, last.seq.common) : TRUE
            IN  \E r \in SchedGetSubflow(sched, data, common) :
                   /\ heap' = [heap EXCEPT !.blocks[heap.ptr].data = r.ctl]
                   /\ common' = r.common
                   /\ threads' = [threads EXCEPT
                                     ![c].pc = "idle", ![c].calls = @ + 1,
                                     ![c].own = [ctl |-> own.ctl, common |-> own.common]]
                   /\ last' = [op |-> "get_subflow", conn |-> c, fault |-> "none",
                               ret |-> r.ret,
                               pre |-> [ctl |-> data, common |-> common],
                               own_pre |-> me.own,
                               seq |-> [ctl |-> seq.ctl, common |-> seq.common]]
                   /\ UNCHANGED <<sched, paths, conn, metrics, tun, clock, ctl, lock>>

\* release of connection c: kfree of whatever the global pointer holds
SchedRelease(c) ==
    /\ Sound /\ threads[c].pc = "idle"
    /\ threads' = [threads EXCEPT ![c].pc = "released"]
    /\ IF ~UsesKzalloc(sched)
       THEN /\ last' = [last EXCEPT !.op = "release", !.conn = c]
            /\ heap' = heap
       ELSE IF Global.live
       THEN /\ last' = [last EXCEPT !.op = "release", !.conn = c]
            /\ heap' = [heap EXCEPT !.blocks[heap.ptr].live = FALSE]
       ELSE /\ last' = [last EXCEPT !.op = "release", !.conn = c, !.fault = "double_free"]
            /\ heap' = heap
    /\ UNCHANGED <<sched, paths, conn, metrics, tun, clock, ctl, common, lock>>

NextShared ==
    \/ \E c \in Conns : SchedInit(c)
    \/ \E c \in Conns : GetSubflowLoad(c)
    \/ \E c \in Conns : GetSubflowStore(c)
    \/ \E c \in Conns : SchedRelease(c)
    \/ Tick

SpecShared == InitShared /\ [][NextShared]_vars

(***************************************************************************)
(* C17.  For any interleaving of init, get_subflow and release calls over  *)
(* two connections using the same scheduler, every get_subflow call on a   *)
(* connection that has been initialised and not yet released operates on   *)
(* control state that is allocated and not released.  Violated: the second *)
(* init replaces the global pointer, and the first release frees the block *)
(* the other connection still uses.                                        *)
(***************************************************************************)
C17_ControlStateLive ==
    last.op = "get_subflow" => last.fault # "use_after_free"

(***************************************************************************)
(* C18.  Scheduling activity of one connection does not influence another  *)
(* connection's decisions: the lambda, RTT bounds and counters used by     *)
(* connection B's get_subflow are the same whether or not connection A has *)
(* run init, get_subflow or lambda updates in between.  Violated: the      *)
(* state a call works on is the one global, not what the connection's own  *)
(* calls alone would have left.                                            *)
(***************************************************************************)
C18_ConnectionsIndependent ==
    (last.op = "get_subflow" /\ Sound) => last.pre = last.own_pre

(***************************************************************************)
(* C19.  When get_subflow calls of two connections run concurrently on the *)
(* shared control state, no update is lost: after any interleaving,        *)
(* total_decisions equals the number of get_subflow calls made since init  *)
(* and lambda equals the result of applying the performed lambda updates   *)
(* one after another.  Violated: total_decisions++ is an unprotected load  *)
(* and store, and two calls that load the same count store the same count. *)
(***************************************************************************)
C19_NoLostUpdate ==
    (Sound /\ heap.ptr # NULL /\ \A c \in Conns : threads[c].pc # "loaded")
    => /\ Global.data.total_decisions = last.seq.ctl.total_decisions
       /\ Global.data.lambda_1000 = last.seq.ctl.lambda_1000

(***************************************************************************)
(* The round-robin scheduler.  Its control state rr_global_data is held in *)
(* ctl; the host stack keeps calling get_subflow on a fixed set of paths.  *)
(***************************************************************************)
\* packets_sent is an unsigned counter that wraps; it wraps here after this value
MaxPackets == 3

roundrobin_count_available_subflows(ps) ==
    Cardinality({i \in 1..Len(ps) : mptcp_subflow_is_available(ps[i])})

RECURSIVE RoundRobinIndexLoop(_, _, _, _, _)
\* the loop of roundrobin_get_subflow_by_index from subflow i on
RoundRobinIndexLoop(ps, i, target_index, use_backup, current_index) ==
    IF i > Len(ps) THEN NULL
    ELSE IF \/ ~mptcp_subflow_is_available(ps[i])
            \/ (~use_backup /\ ps[i].backup)
            \/ (use_backup /\ ~ps[i].backup)
    THEN RoundRobinIndexLoop(ps, i + 1, target_index, use_backup, current_index)
    ELSE IF current_index = target_index THEN i
    ELSE RoundRobinIndexLoop(ps, i + 1, target_index, use_backup, current_index + 1)

roundrobin_get_subflow_by_index(ps, target_index, use_backup) ==
    RoundRobinIndexLoop(ps, 1, target_index, use_backup, 0)

\* the subflow selected and the control state left
roundrobin_select_next_subflow(ps, rr, use_backup, now) ==
    LET available_count == roundrobin_count_available_subflows(ps)
        next_index      == (rr.last_used_index + 1) % available_count
        selected        == roundrobin_get_subflow_by_index(ps, next_index, use_backup)
    IN  IF available_count = 0 THEN [sub |-> NULL, rr |-> rr]
        ELSE IF selected # NULL
        THEN [sub |-> selected,
              rr  |-> [rr EXCEPT !.last_used_index = next_index,
                                 !.total_subflows = available_count,
                                 !.last_update = now]]
        ELSE [sub |-> NULL, rr |-> rr]

mptcp_sched_roundrobin_get_subflow(ps, rr, now) ==
    LET active   == roundrobin_select_next_subflow(ps, rr, FALSE, now)
        backup   == roundrobin_select_next_subflow(ps, active.rr, TRUE, now)
        fallback == mptcp_select_fallback_subflow(ps)
        sent(r)  == [r EXCEPT !.packets_sent = (@ + 1) % (MaxPackets + 1)]
    IN  IF active.sub # NULL
        THEN [ret |-> 0, marked |-> {active.sub}, rr |-> sent(active.rr)]
        ELSE IF backup.sub # NULL
        THEN [ret |-> 0, marked |-> {backup.sub}, rr |-> sent(backup.rr)]
        ELSE IF fallback # NULL
        THEN [ret |-> 0, marked |-> {fallback}, rr |-> sent(backup.rr)]
        ELSE [ret |-> -EINVAL, marked |-> {}, rr |-> backup.rr]

InitRoundRobin ==
    /\ sched = "roundrobin"
    /\ paths \in [Paths -> PathStates("minrtt")]
    /\ conn = [snd_wnd |-> 5840, retrans |-> FALSE, meta_inflight |-> 0]
    /\ metrics = [wifi |-> -1, nr |-> -1]
    /\ tun = DefaultTunables
    /\ clock = [boot |-> U32(2), ticks |-> 0]
    /\ ctl = [last_used_index |-> 0, total_subflows |-> 0, packets_sent |-> 0,
              last_update |-> tcp_jiffies32]
    /\ common = InitCommon
    /\ last = [op |-> "none", ret |-> 0, marked |-> {}]
    /\ Sequential

RoundRobinGetSubflow ==
    LET r == mptcp_sched_roundrobin_get_subflow(paths, ctl, tcp_jiffies32)
    IN  /\ ctl' = r.rr
        /\ last' = [op |-> "get_subflow", ret |-> r.ret, marked |-> r.marked]
        /\ UNCHANGED <<sched, paths, conn, metrics, tun, clock, common, threads, lock, heap>>

NextRoundRobin == RoundRobinGetSubflow

\* the host stack calls get_subflow again and again
SpecRoundRobin ==
    InitRoundRobin /\ [][NextRoundRobin]_vars /\ WF_vars(RoundRobinGetSubflow)

(***************************************************************************)
(* C20.  The round-robin scheduler distributes fairly: for any fixed set   *)
(* of available subflows (any mix of backup and non-backup), over repeated *)
(* get_subflow calls every available non-backup subflow is selected        *)
(* infinitely often.  Violated: the index wraps at the number of all       *)
(* available subflows and is looked up among the non-backup ones only, so  *)
(* with a backup subflow present the lookup runs past the end and every    *)
(* later call marks the first subflow of the list.                         *)
(***************************************************************************)
C20_RoundRobinFair ==
    \A i \in Paths :
       []<>((Available(i) /\ ~paths[i].backup) => (last.op = "get_subflow" /\ i \in last.marked))

(***************************************************************************)
(* C21.  The shared RTT bounds start from sentinel extremes at init        *)
(* (min_srtt at the maximum value, max_srtt at 0), and in every state      *)
(* after a scheduling call has observed at least one available path,       *)
(* min_srtt <= max_srtt.  The bounds are those of the control state in     *)
(* blest.c and xlayer.c and those of common_global_data in the older       *)
(* variants.  Violated at init: mptcp_sched_xlayer_init leaves the zeroes  *)
(* of kzalloc in both bounds, so min_srtt starts at 0 and stays there.     *)
(***************************************************************************)
C21_RttBoundsOrdered ==
    LET bounds == IF sched \in {"blest", "xlayer"} THEN ctl ELSE common
    IN  sched \in BlestLike \cup XlayerLike
        => /\ last.op = "none"
              => bounds.min_srtt_us = U32_MAX /\ bounds.max_srtt_us = U32(0)
           /\ (Returned /\ \E i \in Paths : Available(i))
              => LeW(bounds.min_srtt_us, bounds.max_srtt_us)

(***************************************************************************)
(* C22.  Among the available paths of the requested class (non-backup, or  *)
(* backup), get_minrtt_sock returns the path with the smallest RTT         *)
(* estimate; among paths with equal smallest RTT the first in iteration    *)
(* order wins; and a path with RTT estimate zero (unmeasured) is never     *)
(* returned while a measured path of that class is available.  Violated    *)
(* when every available path of the class is unmeasured: each of them has  *)
(* the RTT U32_MAX, none is below the initial minimum U32_MAX, and the     *)
(* function returns no path at all.                                        *)
(***************************************************************************)
C22_MinRttOfClass ==
    Returned =>
      \A use_backup \in BOOLEAN, check_send \in BOOLEAN :
        LET class    == {i \in Paths : Available(i) /\ paths[i].backup = use_backup}
            rtt(i)   == paths[i].srtt_us \div 8
            best     == get_minrtt_sock(paths, use_backup, check_send)
        IN  class # {} =>
              /\ best \in class
              /\ \A j \in class :
                    rtt(j) > 0 => /\ rtt(best) > 0
                                  /\ rtt(best) <= rtt(j)
                                  /\ j < best => rtt(best) < rtt(j)
              /\ rtt(best) = 0 => \A j \in class : best <= j

(***************************************************************************)
(* C23.  A lambda update that passes the rate limit adds dyn_lambda_bad    *)
(* (default 40) to lambda_1000 if the connection's retransmission marker   *)
(* is set and otherwise subtracts dyn_lambda_good (default 10), then       *)
(* clamps the result to [min_lambda*100, max_lambda*100] (defaults         *)
(* 1000..1300) and sets last_lambda_update to the current tick.  Stated    *)
(* for tunables with min_lambda <= max_lambda.                             *)
(***************************************************************************)
C23_LambdaStep ==
    (IsUpdate /\ last.performed /\ tun.min_lambda <= tun.max_lambda)
    => LET stepped == IF last.retrans THEN LambdaBefore + tun.dyn_lambda_bad
                                      ELSE LambdaBefore - tun.dyn_lambda_good
           clamped == IF stepped > tun.max_lambda * 100 THEN tun.max_lambda * 100
                      ELSE IF stepped < tun.min_lambda * 100 THEN tun.min_lambda * 100
                      ELSE stepped
       IN  /\ LambdaNow = clamped
           /\ StampNow = last.now
           /\ DefaultTunables.dyn_lambda_bad = 40 /\ DefaultTunables.dyn_lambda_good = 10
           /\ DefaultTunables.min_lambda * 100 = 1000
           /\ DefaultTunables.max_lambda * 100 = 1300

\* under the default tunables, a good update to 1190 followed by an update
\* under retransmissions that raised lambda by the whole step, to 1230
C23_Witness ==
    /\ IsUpdate /\ last.performed /\ last.retrans
    /\ tun = DefaultTunables
    /\ LambdaBefore = 1190 /\ LambdaNow = 1230
    /\ StampNow = last.now /\ StampNow # StampBefore

(***************************************************************************)
(* C24.  The deliverable-bytes estimate equals (estimated segments * path  *)
(* MSS * lambda_1000) / 1000: the current lambda of the control state      *)
(* scales the raw segment estimate, so two control states that differ only *)
(* in lambda give proportionally different estimates.  Violated: in        *)
(* blest.h the factor lambda_1000 is commented out of the product, so the  *)
(* estimate is segments * MSS / 1000 whatever lambda is.                   *)
(***************************************************************************)
C24_ScaledByLambda ==
    last.op = "estimate" =>
      LET p        == paths[last.path]
          segments == IF sched = "common"
                      THEN estimate_packets(p, U32(last.time_us),
                                            common.min_srtt_us, common.max_srtt_us)
                      ELSE estimate_packets(p, U32(last.time_us),
                                            U32(p.srtt_us), U32(p.srtt_us))
          bytes(l) == DivSmall(MulW(MulW(Resize(segments, 4), U64(p.mss_cache), 4),
                                    U64(l), 4), 1000)
      IN  /\ Resize(last.lo_bytes, 4) = bytes(last.lo)
          /\ Resize(last.hi_bytes, 4) = bytes(last.hi)

(***************************************************************************)
(* C25.  In the deliverable-bytes estimator, avg_rtt is                    *)
(* (min_srtt + max_srtt) / 2 taken from the shared RTT bounds of the       *)
(* control state, and num_rtts is 1 when avg_rtt is 0 and otherwise        *)
(* ceil(time_budget / avg_rtt), for every time budget including exact      *)
(* multiples of avg_rtt.  Violated: the code computes                      *)
(* time_us / avg_rtt + 1, one more than the ceiling at every exact         *)
(* multiple.                                                               *)
(***************************************************************************)
C25_NumRttsIsCeiling ==
    last.op = "estimate" =>
      LET p       == paths[last.path]
          bounds  == IF sched = "common" THEN common ELSE ctl
          avg_rtt == Resize(DivSmall(AddW(Resize(bounds.min_srtt_us, 3),
                                          Resize(bounds.max_srtt_us, 3)), 2), 2)
          ceiling == IF last.time_us = 0 THEN U32(0)
                     ELSE AddW(DivW(U32(last.time_us - 1), avg_rtt), U32(1))
          used    == IF sched = "common"
                     THEN estimate_num_rtts(U32(last.time_us),
                                            common.min_srtt_us, common.max_srtt_us)
                     ELSE estimate_num_rtts(U32(last.time_us),
                                            U32(p.srtt_us), U32(p.srtt_us))
      IN  used = IF avg_rtt = U32(0) THEN U32(1) ELSE ceiling

(***************************************************************************)
(* C26.  The segment estimate of the deliverable-bytes estimator is        *)
(* cwnd * (2^n - 1) with n = min(num_rtts, 16) when the path's slow-start  *)
(* threshold is the infinite sentinel, and otherwise                       *)
(* (ca_cwnd + (num_rtts - 1)/2) * num_rtts with                            *)
(* ca_cwnd = max(cwnd, ssthresh + 1) and num_rtts uncapped.                *)
(***************************************************************************)
C26_SegmentEstimate ==
    last.op = "estimate" =>
      LET p        == paths[last.path]
          lo_rtt   == IF sched = "common" THEN common.min_srtt_us ELSE U32(p.srtt_us)
          hi_rtt   == IF sched = "common" THEN common.max_srtt_us ELSE U32(p.srtt_us)
          num_rtts == ToInt(estimate_num_rtts(U32(last.time_us), lo_rtt, hi_rtt))
          n        == IF num_rtts > 16 THEN 16 ELSE num_rtts
          ca_cwnd  == IF p.snd_cwnd > p.snd_ssthresh + 1 THEN p.snd_cwnd
                      ELSE p.snd_ssthresh + 1
          segments == estimate_packets(p, U32(last.time_us), lo_rtt, hi_rtt)
      IN  /\ FitsInt(segments)
          /\ ToInt(segments) =
               IF p.snd_ssthresh = TCP_INFINITE_SSTHRESH
               THEN p.snd_cwnd * (2^n - 1)
               ELSE (ca_cwnd + (num_rtts - 1) \div 2) * num_rtts

\* a subflow in initial slow start given a budget of more than 16 RTTs, and
\* one past slow start whose threshold exceeds its window
C26_Witness ==
    /\ last.op = "estimate" /\ last.time_us = 160000
    /\ sched = "blest_p000"
    /\ \E i \in Paths :
          /\ i = last.path
          /\ paths[i].snd_ssthresh = TCP_INFINITE_SSTHRESH
          /\ estimate_num_rtts(U32(160000), U32(paths[i].srtt_us), U32(paths[i].srtt_us)) = U32(21)
          /\ estimate_packets(paths[i], U32(160000), U32(paths[i].srtt_us),
                              U32(paths[i].srtt_us)) = U32(paths[i].snd_cwnd * 65535)
    /\ \E j \in Paths :
          /\ paths[j].snd_ssthresh = 30 /\ paths[j].snd_cwnd = 20
          /\ estimate_packets(paths[j], U32(160000), U32(paths[j].srtt_us),
                              U32(paths[j].srtt_us)) = U32((31 + 10) * 21)

(***************************************************************************)
(* C27.  The linger-time estimate of a path with                           *)
(* inflight = segments in flight + 1 is max(path_srtt, e), where           *)
(* e = max_srtt if inflight >= cwnd and                                    *)
(* e = min_srtt + (max_srtt - min_srtt) * inflight / cwnd otherwise; the   *)
(* result is never smaller than the path's own current RTT, with all RTT   *)
(* terms in the same time unit.  The unit is the one the RTT bounds are    *)
(* recorded in: microseconds in blest.h, eighths of a microsecond          *)
(* (tp->srtt_us) in the shared library and the older BLEST.  Stated for    *)
(* subflows that all have an RTT sample and were all observed.  Violated:  *)
(* common_estimate_linger_time compares tp->srtt_us >> 3 with an estimate  *)
(* made from bounds that hold tp->srtt_us.                                 *)
(***************************************************************************)
C27_LingerTime ==
    (last.op = "estimate" /\ \A i \in Paths : Available(i) /\ paths[i].srtt_us > 0) =>
      LET p         == paths[last.path]
          min_srtt  == IF sched = "common" THEN ToInt(common.min_srtt_us)
                       ELSE IF sched = "blest_h" THEN ToInt(ctl.min_srtt_us)
                       ELSE p.srtt_us
          max_srtt  == IF sched = "common" THEN ToInt(common.max_srtt_us)
                       ELSE IF sched = "blest_h" THEN ToInt(ctl.max_srtt_us)
                       ELSE p.srtt_us
          path_srtt == IF sched = "blest_h" THEN p.srtt_us \div 8 ELSE p.srtt_us
          inflight  == p.packets_in_flight + 1
          e         == IF inflight >= p.snd_cwnd THEN max_srtt
                       ELSE min_srtt + ((max_srtt - min_srtt) * inflight) \div p.snd_cwnd
      IN  /\ last.linger = U32(IF path_srtt > e THEN path_srtt ELSE e)
          /\ LeW(U32(path_srtt), last.linger)

(***************************************************************************)
(* C28.  In the HoL check of get_subflow, the lambda update and the linger *)
(* time are computed on the candidate (throughput-preferred, slow) path,   *)
(* the deliverable bytes are computed on the fastest (minimum-RTT) path    *)
(* over that linger time, and the in-flight bytes subtracted from the send *)
(* window are the candidate's; this holds for the XLayer variant, where    *)
(* the candidate is the bitrate-chosen path, as well as for BLEST.         *)
(* Violated in xlayer.c: lambda, linger time and in-flight bytes are taken *)
(* from default_subflow, the minimum-RTT path, and the deliverable bytes   *)
(* from maxdr_subflow, the bitrate-chosen one.                             *)
(***************************************************************************)
C28_HolCheckRoles ==
    (Returned /\ sched \in {"blest", "xlayer"} /\ last.hol
       /\ Candidate \in Paths /\ Fastest \in Paths /\ Candidate # Fastest)
    => LET observed == [last.pre EXCEPT !.min_srtt_us = ctl.min_srtt_us,
                                        !.max_srtt_us = ctl.max_srtt_us]
           updated  == blest_update_lambda(conn.retrans, paths[Candidate], observed,
                                           last.now, tun)
           linger   == blest_estimate_linger_time(paths[Candidate], updated)
       IN  /\ ctl.lambda_1000 = updated.lambda_1000
           /\ ctl.last_lambda_update = updated.last_lambda_update
           /\ last.fast_bytes = blest_estimate_bytes(paths[Fastest], linger, updated)
           /\ last.avail_space = avail_space_of(paths[Candidate], conn)

C30_NoDivisionByZero ==
    last.op = "estimate" =>
      LET p       == paths[last.path]
          lo_rtt  == IF sched = "common" THEN common.min_srtt_us ELSE U32(p.srtt_us)
          hi_rtt  == IF sched = "common" THEN common.max_srtt_us ELSE U32(p.srtt_us)
          avg_rtt == DivW(AddW(lo_rtt, hi_rtt), U32(2))
          one     == [p EXCEPT !.snd_cwnd = 1]
          IsU32(w) == DOMAIN w = 1..2 /\ \A k \in 1..2 : w[k] \in 0..(Limb - 1)
      IN  /\ IsU32(last.lo_bytes) /\ IsU32(last.hi_bytes) /\ IsU32(last.linger)
          /\ avg_rtt = U32(0)
             => estimate_num_rtts(U32(last.time_us), lo_rtt, hi_rtt) = U32(1)
          /\ p.snd_cwnd = 0
             => last.linger =
                  IF sched = "common" THEN common_estimate_linger_time(one, common)
                  ELSE IF sched = "blest_h" THEN blest_estimate_linger_time(one, ctl)
                  ELSE blest_estimate_linger_time_p000(one)

\* no subflow has a congestion window, so none was observed and the bounds
\* are the sentinels; the subflow estimated has no RTT sample either
C30_Witness ==
    /\ last.op = "estimate" /\ sched = "blest_h"
    /\ \A i \in Paths : paths[i].snd_cwnd = 0
    /\ paths[last.path].srtt_us = 0
    /\ ctl.min_srtt_us = U32_MAX /\ ctl.max_srtt_us = U32(0)
    /\ estimate_num_rtts(U32(last.time_us), U32(0), U32(0)) = U32(1)
    /\ last.linger = U32(0)
    /\ last.lo_bytes = U32(0)

(***************************************************************************)
(* Scheduling calls between which the host stack takes new RTT samples.    *)
(***************************************************************************)
InitObserve == Init /\ sched \in BlestLike

\* tcp_rtt_estimator: between two calls a subflow's smoothed RTT changes
RttSample ==
    /\ last.op = "get_subflow" /\ Alive
    /\ \E i \in Paths, r \in SrttValues \ {0} :
          /\ r # paths[i].srtt_us
          /\ paths' = [paths EXCEPT ![i].srtt_us = r]
    /\ last' = [last EXCEPT !.op = "rtt_sample"]
    /\ UNCHANGED <<threads, lock, heap, sched, conn, metrics, tun, clock, ctl, common>>

NextObserve ==
    \/ BlestGetSubflow
    \/ BlestP000GetSubflow
    \/ RttSample

SpecObserve == InitObserve /\ [][NextObserve]_vars

(***************************************************************************)
(* C31.  At the HoL check of a scheduling call, min_srtt and max_srtt      *)
(* equal the minimum and maximum RTT estimate over the available paths     *)
(* observed during that same scheduling pass; RTTs of paths observed only  *)
(* in earlier calls do not enter the bounds.  The RTT estimate is the one  *)
(* the pass records: mptcp_subflow_get_rtt in blest.h, tp->srtt_us in the  *)
(* shared library.  Violated: the bounds are never reset between calls,    *)
(* so they are the extremes of every RTT observed since init.              *)
(***************************************************************************)
C31_BoundsOfThisPass ==
    (Returned /\ last.hol) =>
      LET bounds   == IF sched = "blest" THEN ctl ELSE common
          rtt(i)   == IF sched = "blest" THEN mptcp_subflow_get_rtt(paths[i])
                      ELSE U32(paths[i].srtt_us)
          observed == {i \in Paths : Available(i)}
      IN  /\ \E i \in observed : bounds.min_srtt_us = rtt(i)
          /\ \A i \in observed : LeW(bounds.min_srtt_us, rtt(i))
          /\ \E i \in observed : bounds.max_srtt_us = rtt(i)
          /\ \A i \in observed : LeW(rtt(i), bounds.max_srtt_us)

(***************************************************************************)
(* BLEST while the host stack changes subflow state during a call: the     *)
(* subflow list is scanned twice, by find_min_rtt_subflow and then by      *)
(* __mptcp_sched_minrtt_get_subflow, and the subflow sockets are not       *)
(* locked in between.                                                      *)
(***************************************************************************)
\* blest.c with the first scan reading ps and everything after it reading ps2
blest_get_subflow_rescan(ps, ps2, cn, data, cgd, now, t) ==
    LET d1     == [data EXCEPT !.total_decisions = @ + 1]
        f      == find_min_rtt_subflow(ps, d1)
        minrtt == f.sub
        dflt   == __mptcp_sched_minrtt_get_subflow(ps2)
    IN  IF minrtt = NULL THEN {Early(-EAGAIN, {}, f.data, cgd, NULL, NULL)}
        ELSE IF dflt = NULL THEN {Early(-EAGAIN, {}, f.data, cgd, minrtt, NULL)}
        ELSE IF ~ps2[dflt].ssk \/ ~ps2[minrtt].ssk
        THEN {Early(-EAGAIN, {}, f.data, cgd, minrtt, dflt)}
        ELSE IF dflt # minrtt
        THEN {blest_hol_check(ps2, cn, f.data, cgd, now, t, minrtt, dflt, NULL, minrtt)}
        ELSE {Outcome(0, {dflt}, f.data, cgd, minrtt, dflt, NULL,
                      FALSE, FALSE, U32(0), U32(0))}

InitRescan == Init /\ sched = "blest"

\* a call during which a retransmission timer may fire on one subflow
BlestGetSubflowRescan ==
    /\ Alive
    /\ \E ps2 \in {paths} \cup {[paths EXCEPT ![i].ca_state = "Loss"] : i \in Paths} :
          /\ paths' = ps2
          /\ \E r \in blest_get_subflow_rescan(paths, ps2, conn, ctl, common,
                                               tcp_jiffies32, tun) :
                /\ ctl' = r.ctl
                /\ common' = r.common
                /\ last' = [op |-> "get_subflow", calls |-> last.calls + 1,
                            pre |-> ctl, precommon |-> common,
                            metrics |-> metrics, now |-> tcp_jiffies32] @@ r
    /\ UNCHANGED <<threads, lock, heap, sched, conn, metrics, tun, clock>>

NextRescan == BlestGetSubflowRescan

SpecRescan == InitRescan /\ [][NextRescan]_vars

(***************************************************************************)
(* C32.  If the best-path recommendation used as BLEST candidate is        *)
(* unavailable while a fastest path exists, get_subflow uses the fastest   *)
(* path as candidate and succeeds instead of returning an error.           *)
(* Violated in blest.c, which returns -EAGAIN when the recommendation is   *)
(* NULL.                                                                   *)
(***************************************************************************)
C32_RecommendationFallback ==
    (Returned /\ last.minrtt # NULL /\ __mptcp_sched_minrtt_get_subflow(paths) = NULL)
    => last.ret = 0 /\ last.marked = {last.minrtt}

(***************************************************************************)
(* The XLayer module: loading and unloading, the metrics thread and the    *)
(* proc file.  heap holds xlayer_thread, xlayer_proc and what the kernel   *)
(* holds for the module: the proc entry, the registered scheduler and the  *)
(* live kernel threads.                                                    *)
(***************************************************************************)
\* kernel threads the system can hold at once
MaxThreads == 2

ENOMEM == 12

EALREADY == 114

XLAYER_BUFFER_SIZE == 128

\* xlayer_start_metrics_thread without its thread_running test
xlayer_start_metrics_thread_unguarded(m, ok) ==
    LET m1   == [m EXCEPT !.stop_requested = FALSE]
        free == (1..MaxThreads) \ m.live
    IN  IF ~ok \/ free = {}
        THEN [ret |-> -ENOMEM, m |-> [m1 EXCEPT !.metrics_thread = NULL]]
        ELSE LET t == CHOOSE x \in free : \A y \in free : x <= y
             IN  [ret |-> 0,
                  m   |-> [m1 EXCEPT !.metrics_thread = t, !.live = @ \cup {t},
                                     !.thread_running = TRUE]]

\* kthread_run succeeds when ok and the system can hold one more thread
xlayer_start_metrics_thread(m, ok) ==
    IF m.thread_running THEN [ret |-> -EALREADY, m |-> m]
    ELSE LET m1   == [m EXCEPT !.stop_requested = FALSE]
             free == (1..MaxThreads) \ m.live
         IN  IF ~ok \/ free = {}
             THEN [ret |-> -ENOMEM, m |-> [m1 EXCEPT !.metrics_thread = NULL]]
             ELSE LET t == CHOOSE x \in free : \A y \in free : x <= y
                  IN  [ret |-> 0,
                       m   |-> [m1 EXCEPT !.metrics_thread = t, !.live = @ \cup {t},
                                          !.thread_running = TRUE]]

\* kthread_stop returns once the thread has exited
xlayer_stop_metrics_thread(m) ==
    IF ~m.thread_running THEN m
    ELSE LET m1 == [m EXCEPT !.stop_requested = TRUE]
             m2 == IF m1.metrics_thread # NULL
                   THEN [m1 EXCEPT !.live = @ \ {m1.metrics_thread},
                                   !.metrics_thread = NULL]
                   ELSE m1
         IN  [m2 EXCEPT !.thread_running = FALSE]

\* xlayer_metrics_init leaving the proc entry behind when the thread fails
xlayer_metrics_init_no_cleanup(m, okproc, okthread) ==
    IF ~okproc \/ m.proc_entry THEN [ret |-> -ENOMEM, m |-> m]
    ELSE xlayer_start_metrics_thread([m EXCEPT !.proc_entry = TRUE], okthread)

\* proc_create fails when not okproc or when the entry already exists
xlayer_metrics_init(m, okproc, okthread) ==
    IF ~okproc \/ m.proc_entry THEN [ret |-> -ENOMEM, m |-> m]
    ELSE LET s == xlayer_start_metrics_thread([m EXCEPT !.proc_entry = TRUE], okthread)
         IN  IF s.ret < 0
             THEN [ret |-> s.ret, m |-> [s.m EXCEPT !.proc_entry = FALSE]]
             ELSE [ret |-> 0, m |-> s.m]

mptcp_xlayer_register(m, okproc, okthread, oksched) ==
    LET i == xlayer_metrics_init(m, okproc, okthread)
    IN  IF i.ret < 0 THEN i
        ELSE IF ~oksched
        THEN [ret |-> -EINVAL,
              m   |-> [xlayer_stop_metrics_thread(i.m) EXCEPT !.proc_entry = FALSE]]
        ELSE [ret |-> 0, m |-> [i.m EXCEPT !.registered = TRUE]]

\* a write of the characters user_buf; sscanf "%d" skips white space, takes
\* an optional '-' and a run of digits, and stores the value as an int
xlayer_proc_write(m, user_buf) ==
    LET count  == Len(user_buf)
        len    == IF count > XLAYER_BUFFER_SIZE - 1 THEN XLAYER_BUFFER_SIZE - 1 ELSE count
        buffer == SubSeq(user_buf, 1, len)
        m1     == [m EXCEPT !.buffer = buffer]
        digits == <<"0", "1", "2", "3", "4", "5", "6", "7", "8", "9">>
        isspace(i) == i <= len /\ buffer[i] \in {" ", "\n"}
        isdigit(i) == i <= len /\ \E d \in 1..10 : digits[d] = buffer[i]
        value(i)   == (CHOOSE d \in 1..10 : digits[d] = buffer[i]) - 1
        start  == CHOOSE i \in 1..(len + 1) :
                     (\A j \in 1..(i - 1) : isspace(j)) /\ ~isspace(i)
        neg    == start <= len /\ buffer[start] = "-"
        first  == IF neg THEN start + 1 ELSE start
        stop   == CHOOSE i \in first..(len + 1) :
                     (\A j \in first..(i - 1) : isdigit(j)) /\ ~isdigit(i)
        acc[i \in (first - 1)..len] ==
            IF i < first THEN U32(0)
            ELSE AddW(MulW(acc[i - 1], U32(10), 2), U32(value(i)))
        new_bitrate == IF neg THEN SubW(U32(0), acc[stop - 1]) ELSE acc[stop - 1]
    IN  IF ~isdigit(first) THEN [ret |-> -EINVAL, m |-> m1]
        ELSE IF new_bitrate[2] >= 2^15 THEN [ret |-> -EINVAL, m |-> m1]
        ELSE [ret |-> count, m |-> [m1 EXCEPT !.configured_5g_bitrate = ToInt(new_bitrate)]]

InitModule ==
    /\ sched = "xlayer"
    /\ paths = [i \in Paths |-> PathState("ok", FALSE, 8000, i = 1)]
    /\ conn = [snd_wnd |-> 5840, retrans |-> FALSE, meta_inflight |-> 0]
    /\ metrics = [wifi |-> -1, nr |-> -1]
    /\ tun = DefaultTunables
    /\ clock = [boot |-> U32(2), ticks |-> 0]
    /\ ctl = InitCtl(sched, tun)
    /\ common = InitCommon
    /\ last = [op |-> "none", ret |-> 0, input |-> <<>>, pre |-> NULL]
    /\ threads = <<>>
    /\ lock = NULL
    /\ heap = [proc_entry |-> FALSE, registered |-> FALSE, live |-> {},
               metrics_thread |-> NULL, thread_running |-> FALSE,
               stop_requested |-> FALSE, buffer |-> <<>>,
               configured_5g_bitrate |-> 0]

\* insmod: any of proc_create, kthread_run and mptcp_register_scheduler may fail
XlayerRegister ==
    /\ ~heap.registered
    /\ \E okproc \in BOOLEAN, okthread \in BOOLEAN, oksched \in BOOLEAN :
          LET r == mptcp_xlayer_register(heap, okproc, okthread, oksched)
          IN  /\ heap' = r.m
              /\ last' = [op |-> "register", ret |-> r.ret,
                          input |-> <<okproc, okthread, oksched>>, pre |-> heap]
    /\ UNCHANGED <<threads, lock, sched, paths, conn, metrics, tun, clock, ctl, common>>

\* rmmod
XlayerUnregister ==
    /\ heap.registered
    /\ heap' = [xlayer_stop_metrics_thread([heap EXCEPT !.registered = FALSE])
                  EXCEPT !.proc_entry = FALSE]
    /\ last' = [op |-> "unregister", ret |-> 0, input |-> <<>>, pre |-> heap]
    /\ UNCHANGED <<threads, lock, sched, paths, conn, metrics, tun, clock, ctl, common>>

StartMetricsThread ==
    /\ heap.registered
    /\ \E ok \in BOOLEAN :
          LET r == xlayer_start_metrics_thread(heap, ok)
          IN  /\ heap' = r.m
              /\ last' = [op |-> "start", ret |-> r.ret, input |-> <<ok>>, pre |-> heap]
    /\ UNCHANGED <<threads, lock, sched, paths, conn, metrics, tun, clock, ctl, common>>

StopMetricsThread ==
    /\ heap.registered
    /\ heap' = xlayer_stop_metrics_thread(heap)
    /\ last' = [op |-> "stop", ret |-> 0, input |-> <<>>, pre |-> heap]
    /\ UNCHANGED <<threads, lock, sched, paths, conn, metrics, tun, clock, ctl, common>>

\* one round of a live metrics thread's loop
MetricsThreadLoop ==
    /\ \E t \in heap.live : ~heap.stop_requested
    /\ \E m \in MetricStates :
          metrics' = [wifi |-> m.wifi, nr |-> heap.configured_5g_bitrate]
    /\ last' = [op |-> "collect", ret |-> 0, input |-> <<>>, pre |-> heap]
    /\ UNCHANGED <<threads, lock, heap, sched, paths, conn, tun, clock, ctl, common>>

ProcWrite ==
    /\ heap.proc_entry
    /\ \E user_buf \in
            { <<"4", "2">>, <<"0">>, <<"4", "2", "\n">>, <<" ", "7">>, <<>>,
              <<"-", "5">>, <<"a", "b">>, <<"1", "2", "a">>,
              <<"2", "1", "4", "7", "4", "8", "3", "6", "4", "7">>,
              <<"3", "0", "0", "0", "0", "0", "0", "0", "0", "0">>,
              <<"4", "2", "9", "4", "9", "6", "7", "2", "9", "8">> } :
          LET r == xlayer_proc_write(heap, user_buf)
          IN  /\ heap' = r.m
              /\ last' = [op |-> "proc_write", ret |-> r.ret, input |-> user_buf,
                          pre |-> heap]
    /\ UNCHANGED <<threads, lock, sched, paths, conn, metrics, tun, clock, ctl, common>>

NextModule ==
    \/ XlayerRegister
    \/ XlayerUnregister
    \/ StartMetricsThread
    \/ StopMetricsThread
    \/ MetricsThreadLoop
    \/ ProcWrite

SpecModule == InitModule /\ [][NextModule]_vars

(***************************************************************************)
(* C33.  A write to the XLayer proc interface that is not a parsable       *)
(* integer or is a negative integer returns -EINVAL and leaves the         *)
(* configured 5G bitrate unchanged; a write of a non-negative integer sets *)
(* the configured bitrate to that value.  White space around the number is *)
(* not counted; a write with no digit in it is not parsable; nothing is    *)
(* asked of a number followed by other characters.                         *)
(* Violated: the value is stored in an int, so a bitrate of 2^31 or more   *)
(* is rejected as negative or stored as another number.                    *)
(***************************************************************************)
C33_ProcWriteValidation ==
    last.op = "proc_write" =>
      LET body   == SelectSeq(last.input, LAMBDA c : c \notin {" ", "\n"})
          digits == <<"0", "1", "2", "3", "4", "5", "6", "7", "8", "9">>
          digit(c)  == \E d \in 1..10 : digits[d] = c
          number(t) == Len(t) > 0 /\ \A i \in 1..Len(t) : digit(t[i])
          dec[n \in Nat] == IF n < 10 THEN <<digits[n + 1]>>
                            ELSE Append(dec[n \div 10], digits[(n % 10) + 1])
          rejected  == /\ last.ret = -EINVAL
                       /\ heap.configured_5g_bitrate = last.pre.configured_5g_bitrate
      IN  /\ number(body) => dec[heap.configured_5g_bitrate] = body
          /\ (Len(body) > 1 /\ body[1] = "-" /\ number(Tail(body))) => rejected
          /\ (\A i \in 1..Len(body) : ~digit(body[i])) => rejected

(***************************************************************************)
(* C34.  XLayer module start-up is all-or-nothing: if creating the proc    *)
(* entry, starting the metrics thread or registering the scheduler fails,  *)
(* the register call returns the error and afterwards no proc entry        *)
(* exists, no metrics thread runs and thread_running is false; on success  *)
(* all three exist.                                                        *)
(***************************************************************************)
C34_StartupAllOrNothing ==
    last.op = "register" =>
      IF FALSE \in {last.input[k] : k \in 1..3}
      THEN /\ last.ret < 0
           /\ ~heap.proc_entry /\ heap.live = {} /\ ~heap.thread_running
           /\ ~heap.registered
      ELSE /\ last.ret = 0
           /\ heap.proc_entry /\ heap.registered /\ heap.thread_running
           /\ heap.metrics_thread # NULL /\ heap.live = {heap.metrics_thread}

\* a load that failed at the last step, after the proc entry and the thread
\* had been created
C34_Witness ==
    /\ last.op = "register" /\ last.input = <<TRUE, TRUE, FALSE>>
    /\ last.ret = -EINVAL /\ ~heap.proc_entry /\ heap.live = {}

(***************************************************************************)
(* C35.  For any sequence of xlayer_start_metrics_thread and               *)
(* xlayer_stop_metrics_thread calls, at most one metrics thread exists at  *)
(* a time: a start while running returns -EALREADY without creating a      *)
(* thread, a stop while not running is a no-op, and after a stop the       *)
(* thread has terminated and thread_running is false.                      *)
(***************************************************************************)
C35_AtMostOneThread ==
    /\ Cardinality(heap.live) <= 1
    /\ (last.op = "start" /\ last.pre.thread_running)
       => last.ret = -EALREADY /\ heap = last.pre
    /\ (last.op = "stop" /\ ~last.pre.thread_running) => heap = last.pre
    /\ last.op = "stop" => heap.live = {} /\ ~heap.thread_running

\* a start refused while the thread of an earlier start is alive
C35_Witness ==
    /\ last.op = "start" /\ last.pre.thread_running /\ last.ret = -EALREADY
    /\ Cardinality(heap.live) = 1

(***************************************************************************)
(* C36.  In the BLEST get_subflow, the candidate (minimum-RTT non-backup   *)
(* path, else minimum-RTT backup path) differs from the fastest path       *)
(* (minimum RTT over all available paths) only when an available backup    *)
(* path has an RTT not larger than every available non-backup path; with   *)
(* no backup path available the HoL check never runs, hol_prevented never  *)
(* changes and lambda is never updated.                                    *)
(***************************************************************************)
C36_CandidateVersusFastest ==
    (Returned /\ sched \in BlestLike) =>
      LET rtt(i) == mptcp_subflow_get_rtt(paths[i])
          backups == {i \in Paths : Available(i) /\ paths[i].backup}
          others  == {i \in Paths : Available(i) /\ ~paths[i].backup}
      IN  /\ (Candidate # NULL /\ Fastest # NULL /\ Candidate # Fastest)
             => \E b \in backups : \A n \in others : LeW(rtt(b), rtt(n))
          /\ backups = {}
             => /\ ~last.hol
                /\ last.ctl.hol_prevented = last.pre.hol_prevented
                /\ LambdaNow = LambdaBefore

\* the candidate is a non-backup path and the fastest path a backup path
C36_Witness ==
    /\ Returned /\ sched \in BlestLike /\ last.hol
    /\ Candidate # NULL /\ Fastest # NULL /\ Candidate # Fastest
    /\ ~paths[Candidate].backup /\ paths[Fastest].backup

(***************************************************************************)
(* C38.  Every path marked scheduled by the BLEST or XLayer get_subflow    *)
(* passed the availability filter during that call; the minRTT get_subflow *)
(* marks a path that passed the availability filter whenever one exists.   *)
(***************************************************************************)
C38_MarkedPathsAvailable ==
    Returned =>
      /\ sched \in BlestLike \cup XlayerLike
         => \A i \in last.marked : i \in Paths /\ Available(i)
      /\ (sched = "minrtt" /\ \E i \in Paths : Available(i))
         => \E i \in last.marked : i \in Paths /\ Available(i)

C40_MonotonicInWindowAndBudget ==
    last.op = "estimate" =>
      LET p == paths[last.path]
          bytes(q, time_us) ==
              CASE sched = "blest_h" ->
                     blest_estimate_bytes(q, U32(time_us), [ctl EXCEPT !.lambda_1000 = last.lo])
                [] sched = "blest_p000" ->
                     blest_estimate_bytes_p000(q, U32(time_us),
                                               [ctl EXCEPT !.lambda_1000 = last.lo])
                [] OTHER ->
                     common_estimate_bytes(q, U32(time_us),
                                           [common EXCEPT !.lambda_1000 = last.lo])
      IN  /\ bytes(p, last.time_us) = last.lo_bytes
          /\ \A c \in {20, 40} :
                p.snd_cwnd <= c
                => LeW(last.lo_bytes, bytes([p EXCEPT !.snd_cwnd = c], last.time_us))
          /\ \A time_us \in TimeBudgets :
                last.time_us <= time_us => LeW(last.lo_bytes, bytes(p, time_us))

(***************************************************************************)
(* The lambda controller under persistent feedback: the retransmission     *)
(* marker of the connection never changes, scheduling passes keep calling  *)
(* the update, and time keeps passing.  The RTT bounds are those a         *)
(* scheduling pass has observed.                                           *)
(***************************************************************************)
\* updates performed per behaviour: one more than the 20 steps of 10 that
\* lead from 1200 to 1000
MaxFeedback == 21

\* jiffies that pass between two performed updates at most: the interval of
\* a 1 ms RTT
MaxGap == 1

InitConverge ==
    /\ sched \in LambdaVariants
    /\ paths = [i \in Paths |-> PathState("ok", FALSE, 8000, FALSE)]
    /\ conn \in {[snd_wnd |-> 5840, retrans |-> r, meta_inflight |-> 0] : r \in BOOLEAN}
    /\ metrics = [wifi |-> -1, nr |-> -1]
    /\ tun \in {t \in TunableStates : t.min_lambda <= t.max_lambda}
    /\ clock = [boot |-> U32(2), ticks |-> 0]
    /\ ctl = InitCtl("blest", tun)
    /\ common = find_min_rtt_subflow_common(paths, InitCommon).data
    /\ last = NoUpdate
    /\ Sequential

\* an update call on some subflow; last.calls counts the calls that got past
\* the rate limit
LambdaFeedback ==
    /\ last.calls < MaxFeedback
    /\ \E i \in Paths :
          LET now  == tcp_jiffies32
              data == CASE sched = "blest_h" ->
                             blest_update_lambda(conn.retrans, paths[i], ctl, now, tun)
                        [] sched = "blest_p000" ->
                             blest_update_lambda_p000(conn.retrans, paths[i], ctl, now, tun)
                        [] OTHER -> ctl
              cgd  == IF sched = "common"
                      THEN common_update_lambda(conn.retrans, paths[i], common, now, tun)
                      ELSE common
              performed == IF sched = "common"
                           THEN paths[i].ssk /\ ~common_rate_limited(paths[i], common, now)
                           ELSE ~blest_rate_limited(paths[i], ctl, now)
          IN  /\ ctl' = data
              /\ common' = cgd
              /\ last' = [op |-> "update_lambda",
                          calls |-> last.calls + (IF performed THEN 1 ELSE 0),
                          path |-> i, retrans |-> conn.retrans, now |-> now,
                          pre |-> ctl, precommon |-> common,
                          performed |-> performed,
                          had_before |-> last.had_update,
                          had_update |-> last.had_update \/ performed]
    /\ UNCHANGED <<threads, lock, heap, sched, paths, conn, metrics, tun, clock>>

\* a jiffy passes; the next update is performed within MaxGap jiffies
FeedbackTick ==
    /\ LtW(SubW(tcp_jiffies32, StampNow), U32(MaxGap))
    /\ clock' = [clock EXCEPT !.ticks = @ + 1]
    /\ UNCHANGED <<threads, lock, heap, sched, paths, conn, metrics, tun, ctl, common, last>>

NextConverge ==
    \/ LambdaFeedback
    \/ FeedbackTick

SpecConverge ==
    InitConverge /\ [][NextConverge]_vars
    /\ WF_vars(LambdaFeedback) /\ WF_vars(FeedbackTick)

(***************************************************************************)
(* C37.  Lambda converges under persistent feedback: if the retransmission *)
(* marker stays clear and rate-limit-permitted updates keep occurring,     *)
(* lambda_1000 eventually reaches min_lambda*100 and stays there; if the   *)
(* marker stays set, lambda_1000 eventually reaches max_lambda*100 and     *)
(* stays there; from the default 1200 after at most 20 good updates or at  *)
(* most 3 bad updates.                                                     *)
(***************************************************************************)
C37_LambdaConverges ==
    /\ ~conn.retrans => <>[](LambdaNow = tun.min_lambda * 100)
    /\ conn.retrans => <>[](LambdaNow = tun.max_lambda * 100)
    /\ []((tun = DefaultTunables /\ ~conn.retrans /\ last.calls >= 20)
          => LambdaNow = tun.min_lambda * 100)
    /\ []((tun = DefaultTunables /\ conn.retrans /\ last.calls >= 3)
          => LambdaNow = tun.max_lambda * 100)

\* the twentieth good update from the default brings lambda to its minimum
C37_Witness ==
    /\ tun = DefaultTunables /\ ~conn.retrans
    /\ last.op = "update_lambda" /\ last.performed /\ last.calls = 20
    /\ LambdaBefore = 1010 /\ LambdaNow = 1000

====
